---- MODULE Spec2Model ----
(***************************************************************************)
(* FlightAgent orchestrator: the retrying search client                    *)
(* (tools/base_tool.py, tools/mcp_tool.py), price normalisation and the    *)
(* merge / rank steps of the multi-region flow (app.py).                   *)
(***************************************************************************)
EXTENDS Integers, Sequences, FiniteSets, TLC

VARIABLES
    \* ---- retrying search client ----
    rpc,          \* "idle" | "loop" | "done": position in the retry function
    fn,           \* which entry point runs: "http" | "mcp" | "tool"
    method,       \* call_http_with_retry's method argument
    max_retries,  \* argument max_retries
    base_delay,   \* argument base_delay
    attempt,      \* the for-loop variable: number of the next attempt
    outcomes,     \* what the network answered to each request sent, in order
    sleeps,       \* the arguments of every time.sleep call, in order
    result,       \* how the call ended: a return value or a raised exception
    flight_query, \* the query dict handed to the search call
    \* ---- price normalisation ----
    npc,          \* "idle" | "done"
    nargs,        \* the arguments of the last normalize_price call
    nret,         \* what that call returned
    \* ---- merge_and_dedupe_results ----
    mpc,          \* "idle" | "done"
    minput,       \* the argument all_results of the last call
    moutput,      \* the list that call returned
    \* ---- aggregation (merge, normalise, sort) ----
    apc,          \* "idle" | "search" | "ranked" | "done" | "error"
    parsed,       \* the query dict the parser produced
    regions,      \* the resolved regions, a sequence of region dicts
    regIdx,       \* index of the region whose search call is next
    settled,      \* how each region's call ended so far: "ok" or "failed"
    aggregated_results, \* the tagged, flattened list
    merged,       \* what merge_and_dedupe_results returned
    ranked,       \* that list after normalisation and sorting
    display_currency, \* parsed currency or USER_DISPLAY_CURRENCY
    perror,       \* the code of the error that ended the request, "" if none
    req_text,     \* payload["query"], the handler's text
    req_today,    \* date.today() at the time of the request
    req_device,   \* payload["device"], the handler's device
    req_ip,       \* payload["ip"], the handler's ip_address
    req_geo,      \* what the IP geolocation provider answers during the request
    region_results, \* the list "results" of each iteration of the region loop
    fq_payloads,  \* the fq_payload handed to each search call
    \* ---- the structured search endpoint ----
    request_body, \* the JSON object posted to the endpoint
    query,        \* the FlightQuery built from it, or why none was built
    search_response, \* what the endpoint answered
    \* ---- configuration ----
    rates         \* _EXCHANGE_RATES, read once at import

retryVars == <<rpc, fn, method, max_retries, base_delay, attempt, outcomes, sleeps,
               result, flight_query>>
normVars  == <<npc, nargs, nret>>
mergeVars == <<mpc, minput, moutput>>
aggVars   == <<apc, parsed, regions, regIdx, settled, aggregated_results, merged,
               ranked, display_currency, perror, rates, req_text, req_today,
               req_device, req_ip, req_geo, region_results, fq_payloads>>
queryVars == <<request_body, query, search_response>>
vars == <<retryVars, normVars, mergeVars, aggVars, queryVars>>

(***************************************************************************)
(* Bounds of the model.                                                    *)
(***************************************************************************)
MaxRetriesBound == 3    \* max_retries is drawn from 0..MaxRetriesBound
MaxBaseDelay == 2       \* base_delay is drawn from 1..MaxBaseDelay
MaxList == 3            \* merge_and_dedupe_results is called on lists of up to MaxList entries
MaxResults == 3         \* the regions of one request return up to MaxResults results in all
MaxRegions == 2         \* a client lists up to MaxRegions entries in device["regions"]

(***************************************************************************)
(* Python values: None, str, int and float.  A number is the exact         *)
(* fraction n/d in lowest terms (d > 0); binary rounding error of floats   *)
(* is not modelled.  Absent marks a key a dict does not hold.              *)
(***************************************************************************)
None == [t |-> "none", s |-> "", n |-> 0, d |-> 1]
Absent == [t |-> "absent", s |-> "", n |-> 0, d |-> 1]
PStr(x) == [t |-> "str", s |-> x, n |-> 0, d |-> 1]
PInt(i) == [t |-> "int", s |-> "", n |-> i, d |-> 1]

RECURSIVE GCD(_, _)
GCD(a, b) == IF b = 0 THEN a ELSE GCD(b, a % b)
Abs(x) == IF x < 0 THEN -x ELSE x

\* the float num/den (den > 0), in lowest terms
PFloat(num, den) ==
    LET g == GCD(Abs(num), den)
    IN  [t |-> "float", s |-> "", n |-> num \div g, d |-> den \div g]

IsNum(v) == v.t \in {"int", "float"}

\* bool(v): None, "", 0 and 0.0 are falsy
Truthy(v) ==
    CASE v.t = "none" -> FALSE
      [] v.t = "str" -> v.s # ""
      [] OTHER -> v.n # 0

\* a == b: numbers compare by value (1 == 1.0), everything else by type and content
PyEq(a, b) ==
    IF IsNum(a) /\ IsNum(b) THEN a.n * b.d = b.n * a.d ELSE a = b

\* a < b on numbers
NumLess(a, b) == a.n * b.d < b.n * a.d

\* d.get(k) and d.get(k, default) of a dict d
Get(d, k) == IF k \in DOMAIN d THEN d[k] ELSE None
GetOr(d, k, dflt) == IF k \in DOMAIN d THEN d[k] ELSE dflt

(***************************************************************************)
(* What one HTTP request can end with.                                     *)
(***************************************************************************)
RetryableStatuses == {429, 502, 503, 504}
OtherStatuses == {400, 404, 500}
ErrorBodies == {"bad request", "oops"}
OkBodies == {"[]", "[1]", "<html>"}

HttpOutcome(st, b) == [type |-> "http", status |-> st, body |-> b]
Outcomes ==
    {HttpOutcome(200, b) : b \in OkBodies}
    \cup {HttpOutcome(st, "busy") : st \in RetryableStatuses}
    \cup {HttpOutcome(st, b) : st \in OtherStatuses, b \in ErrorBodies}
    \cup {[type |-> "timeout", status |-> 0, body |-> ""],
          [type |-> "connection", status |-> 0, body |-> ""],
          [type |-> "redirects", status |-> 0, body |-> ""]}

\* an attempt the client is meant to retry
IsRetryableOutcome(o) ==
    \/ o.type \in {"timeout", "connection"}
    \/ o.type = "http" /\ o.status \in RetryableStatuses

\* response.json(): the texts the model knows, parsed or refused
JsonParses(b) == b \in {"[]", "[1]"}
JsonValue(b) == IF b = "[1]" THEN <<1>> ELSE <<>>

(***************************************************************************)
(* exceptions.py: OrchestratorException(message, code, status_code=500).   *)
(***************************************************************************)
DefaultStatusCode == 500

OrchestratorException(msg, c, st) ==
    [kind |-> "raise", exc |-> "OrchestratorException", message |-> msg,
     code |-> c, status_code |-> st, value |-> <<>>]

\* an exception of another class, as raised by requests or by the try body
Raised(cls, msg) ==
    [kind |-> "raise", exc |-> cls, message |-> msg,
     code |-> "", status_code |-> 0, value |-> <<>>]

Returned(v) ==
    [kind |-> "return", exc |-> "", message |-> "", code |-> "",
     status_code |-> 0, value |-> v]

Sleep(w) ==
    [kind |-> "sleep", exc |-> "", message |-> "", code |-> "",
     status_code |-> w, value |-> <<>>]

NoResult ==
    [kind |-> "none", exc |-> "", message |-> "", code |-> "",
     status_code |-> 0, value |-> <<>>]

\* requests returned a response object
Response ==
    [kind |-> "response", exc |-> "", message |-> "", code |-> "",
     status_code |-> 0, value |-> <<>>]

(***************************************************************************)
(* The two retry loops, call_http_with_retry and                           *)
(* _call_mcp_search_with_retry, differ in codes and messages only.         *)
(***************************************************************************)
NonRetryableCode(f) == IF f = "http" THEN "REMOTE_API_ERROR" ELSE "MCP_ERROR"
UnexpectedCode(f) == IF f = "http" THEN "HTTP_UNEXPECTED_ERROR" ELSE "MCP_UNEXPECTED_ERROR"
UnavailableCode(f) == IF f = "http" THEN "REMOTE_API_UNAVAILABLE" ELSE "MCP_UNAVAILABLE"
UnavailableStatus == 503

NonRetryableMessage(f, st, body) ==
    IF f = "http"
    THEN "Server returned " \o ToString(st) \o ": " \o body
    ELSE "MCP returned HTTP " \o ToString(st) \o ": " \o body

UnexpectedMessage(f, text) ==
    IF f = "http"
    THEN "Unexpected error: " \o text
    ELSE "Unexpected error while calling MCP: " \o text

\* method.upper()
Upper(m) ==
    CASE m = "post" -> "POST"
      [] m = "get" -> "GET"
      [] m = "put" -> "PUT"
      [] OTHER -> m

Methods == {"POST", "get", "PUT"}

\* mutant: the exponent is off by one
Backoff_OffByOne(bd, att) == bd * 2 ^ att

\* wait = base_delay * (2 ** (attempt - 1))
Backoff(bd, att) == bd * 2 ^ (att - 1)

\* requests.post / requests.get: the response, or the exception it raises
SendRequest(o) ==
    CASE o.type = "timeout" -> Raised("Timeout", "Read timed out.")
      [] o.type = "connection" -> Raised("ConnectionError", "Connection refused")
      [] o.type = "redirects" -> Raised("TooManyRedirects", "Exceeded 30 redirects.")
      [] OTHER -> Response

\* mutant: every status other than 200 is retried
ClassifyResponse_RetryAllErrors(f, o, bd, att) ==
    IF o.status = 200
    THEN IF JsonParses(o.body)
         THEN Returned(JsonValue(o.body))
         ELSE Raised("JSONDecodeError", "Expecting value: line 1 column 1 (char 0)")
    ELSE Sleep(Backoff(bd, att))

\* The statements of the try block after the response has arrived.
ClassifyResponse(f, o, bd, att) ==
    IF o.status = 200
    THEN IF JsonParses(o.body)
         THEN Returned(JsonValue(o.body))
         ELSE Raised("JSONDecodeError", "Expecting value: line 1 column 1 (char 0)")
    ELSE IF o.status \in RetryableStatuses
    THEN Sleep(Backoff(bd, att))
    ELSE OrchestratorException(NonRetryableMessage(f, o.status, o.body),
                               NonRetryableCode(f), o.status)

\* The whole try block of one iteration.
TryBlock(f, m, o, bd, att) ==
    IF f = "http" /\ Upper(m) \notin {"POST", "GET"}
    THEN Raised("ValueError", "Unsupported HTTP method: " \o m)
    ELSE LET r == SendRequest(o)
         IN  IF r.kind = "raise" THEN r ELSE ClassifyResponse(f, o, bd, att)

RequestSent(f, m) == ~(f = "http" /\ Upper(m) \notin {"POST", "GET"})

\* mutant: the last except clause retries as the others do
ExceptClauses_RetryAnyException(f, t, bd, att) ==
    IF t.kind # "raise" THEN t ELSE Sleep(Backoff(bd, att))

\* The except clauses, tried in source order.  Every exception is an
\* Exception, the OrchestratorException raised inside the try block included.
ExceptClauses(f, t, bd, att) ==
    IF t.kind # "raise" THEN t
    ELSE IF t.exc = "Timeout" THEN Sleep(Backoff(bd, att))
    ELSE IF t.exc = "ConnectionError" THEN Sleep(Backoff(bd, att))
    ELSE OrchestratorException(UnexpectedMessage(f, t.message),
                               UnexpectedCode(f), DefaultStatusCode)

\* One iteration of the for loop: return, raise, or sleep and continue.
Iteration(f, m, o, bd, att) == ExceptClauses(f, TryBlock(f, m, o, bd, att), bd, att)

\* mutant: exhaustion is reported with the unexpected-failure code
AfterLoop_AsUnexpected(f) ==
    OrchestratorException("Unexpected error", UnexpectedCode(f), DefaultStatusCode)

\* The statement after the loop.
AfterLoop(f) ==
    OrchestratorException(
        IF f = "http" THEN "Failed to reach url after retries."
                      ELSE "MCP service not reachable after multiple retries.",
        UnavailableCode(f), UnavailableStatus)

(***************************************************************************)
(* Query dicts handed to the search tool.                                  *)
(***************************************************************************)
FieldChoices == {"absent", "none", "empty", "set"}
MkQuery(o, d) ==
    LET base == [intent |-> PStr("cheapest")]
        withO == CASE o = "absent" -> base
                   [] o = "none" -> base @@ [origin |-> None]
                   [] o = "empty" -> base @@ [origin |-> PStr("")]
                   [] OTHER -> base @@ [origin |-> PStr("DEL")]
    IN  CASE d = "absent" -> withO
          [] d = "none" -> withO @@ [destination |-> None]
          [] d = "empty" -> withO @@ [destination |-> PStr("")]
          [] OTHER -> withO @@ [destination |-> PStr("DXB")]
Queries == {MkQuery(o, d) : o \in FieldChoices, d \in FieldChoices}
ValidQuery == MkQuery("set", "set")

DefaultMaxRetries == 3
DefaultBaseDelay == 1

(***************************************************************************)
(* Actions of the retrying client.                                         *)
(***************************************************************************)
RetryInit ==
    /\ rpc = "idle" /\ fn = "none" /\ method = "POST"
    /\ max_retries = 0 /\ base_delay = 1 /\ attempt = 1
    /\ outcomes = <<>> /\ sleeps = <<>> /\ result = NoResult
    /\ flight_query = ValidQuery

EnterLoop(f, m, mr, bd, q) ==
    /\ rpc = "idle"
    /\ rpc' = "loop" /\ fn' = f /\ method' = m
    /\ max_retries' = mr /\ base_delay' = bd /\ attempt' = 1
    /\ flight_query' = q
    /\ UNCHANGED <<outcomes, sleeps, result>>
    /\ UNCHANGED <<normVars, mergeVars, aggVars, queryVars>>

\* call_http_with_retry(url, payload, method, max_retries=, base_delay=)
CallHttp ==
    \E m \in Methods, mr \in 0..MaxRetriesBound, bd \in 1..MaxBaseDelay :
        EnterLoop("http", m, mr, bd, ValidQuery)

\* _call_mcp_search_with_retry(flight_query, max_retries=, base_delay=)
CallMcp ==
    \E mr \in 0..MaxRetriesBound, bd \in 1..MaxBaseDelay :
        EnterLoop("mcp", "POST", mr, bd, ValidQuery)

\* mutant: the tool calls the search client without looking at the query
InvokeTool_NoValidation ==
    \E q \in Queries : EnterLoop("tool", "POST", DefaultMaxRetries, DefaultBaseDelay, q)

\* aggregate_flight_search_tool(flight_query)
InvokeTool ==
    \E q \in Queries :
        IF ~Truthy(Get(q, "origin")) \/ ~Truthy(Get(q, "destination"))
        THEN /\ rpc = "idle"
             /\ rpc' = "done" /\ fn' = "tool" /\ flight_query' = q
             /\ result' = OrchestratorException("Origin and destination are required",
                                                "INVALID_FLIGHT_QUERY", 400)
             /\ UNCHANGED <<method, max_retries, base_delay, attempt, outcomes, sleeps>>
             /\ UNCHANGED <<normVars, mergeVars, aggVars, queryVars>>
        ELSE EnterLoop("tool", "POST", DefaultMaxRetries, DefaultBaseDelay, q)

\* One iteration of the retry loop, with the outcome o of its request.
Attempt ==
    /\ rpc = "loop" /\ attempt <= max_retries
    /\ \E o \in Outcomes :
        LET r == Iteration(fn, method, o, base_delay, attempt)
        IN  /\ outcomes' = IF RequestSent(fn, method) THEN Append(outcomes, o) ELSE outcomes
            /\ IF r.kind = "sleep"
               THEN /\ sleeps' = Append(sleeps, r.status_code)
                    /\ attempt' = attempt + 1
                    /\ UNCHANGED <<rpc, result>>
               ELSE /\ rpc' = "done" /\ result' = r
                    /\ UNCHANGED <<sleeps, attempt>>
    /\ UNCHANGED <<fn, method, max_retries, base_delay, flight_query>>
    /\ UNCHANGED <<normVars, mergeVars, aggVars, queryVars>>

\* The loop has run out of attempts.
Exhausted ==
    /\ rpc = "loop" /\ attempt > max_retries
    /\ rpc' = "done" /\ result' = AfterLoop(fn)
    /\ UNCHANGED <<fn, method, max_retries, base_delay, attempt, outcomes, sleeps,
                   flight_query>>
    /\ UNCHANGED <<normVars, mergeVars, aggVars, queryVars>>

RetryNext == CallHttp \/ CallMcp \/ InvokeTool \/ Attempt \/ Exhausted

(***************************************************************************)
(* normalize_price and the rate table _EXCHANGE_RATES (app.py).            *)
(* A table maps every currency of the model to its rate or to Absent.      *)
(***************************************************************************)
Currencies == {"INR", "USD", "EUR"}
RateChoices == {Absent, PFloat(1, 1), PFloat(1, 2), PInt(0)}
RateTables == [Currencies -> RateChoices]
EmptyTable == [c \in Currencies |-> Absent]

\* bool(_EXCHANGE_RATES): an empty dict is falsy
TableTruthy(tb) == \E c \in Currencies : tb[c] # Absent

\* mutant: a currency the table does not hold counts as rate 1
TableGet_DefaultsToOne(tb, k) ==
    IF k.t = "str" /\ k.s \in Currencies /\ tb[k.s] # Absent THEN tb[k.s]
    ELSE PFloat(1, 1)

\* _EXCHANGE_RATES.get(k)
TableGet(tb, k) ==
    IF k.t = "str" /\ k.s \in Currencies /\ tb[k.s] # Absent THEN tb[k.s] ELSE None

\* (amount / base_rate) * target_rate; None stands for the TypeError or
\* ZeroDivisionError that the except clause turns into "return None"
ConvertOrNone(amount, base_rate, target_rate) ==
    IF ~IsNum(amount) \/ ~IsNum(base_rate) \/ ~IsNum(target_rate) THEN None
    ELSE IF base_rate.n = 0 THEN None
    ELSE PFloat(amount.n * base_rate.d * target_rate.n,
                amount.d * base_rate.n * target_rate.d)

\* mutant: the rates are looked up before the currencies are compared
normalize_price_LookupFirst(amount, from_currency, to_currency, tb) ==
    IF ~TableTruthy(tb) THEN None
    ELSE LET base_rate == TableGet(tb, from_currency)
             target_rate == TableGet(tb, to_currency)
         IN  IF base_rate = None \/ target_rate = None THEN None
             ELSE IF PyEq(from_currency, to_currency) THEN amount
             ELSE ConvertOrNone(amount, base_rate, target_rate)

\* normalize_price(amount, from_currency, to_currency) under the table tb
normalize_price(amount, from_currency, to_currency, tb) ==
    IF ~TableTruthy(tb) THEN None
    ELSE IF PyEq(from_currency, to_currency) THEN amount
    ELSE LET base_rate == TableGet(tb, from_currency)
             target_rate == TableGet(tb, to_currency)
         IN  IF base_rate = None \/ target_rate = None THEN None
             ELSE ConvertOrNone(amount, base_rate, target_rate)

Amounts == {PInt(100), PFloat(199, 2), PInt(0), None, PStr("100")}
CurrencyArgs == {PStr(c) : c \in Currencies} \cup {PStr(""), None}

NormIdle == npc = "idle" /\ nargs = <<>> /\ nret = None

\* a call normalize_price(amount, from_currency, to_currency)
NormalizeCall ==
    /\ npc = "idle"
    /\ \E a \in Amounts, f \in CurrencyArgs, t \in CurrencyArgs :
        /\ nargs' = <<a, f, t>>
        /\ nret' = normalize_price(a, f, t, rates)
    /\ npc' = "done"
    /\ UNCHANGED <<retryVars, mergeVars, aggVars, queryVars>>

(***************************************************************************)
(* str() of a value, as the f-strings of the merge key format it.          *)
(***************************************************************************)
RECURSIVE FracDigits(_, _, _)
\* the decimal digits of rem/den (rem < den), at most k of them
FracDigits(rem, den, k) ==
    IF rem = 0 \/ k = 0 THEN ""
    ELSE ToString((rem * 10) \div den) \o FracDigits((rem * 10) % den, den, k - 1)

ReprDigits == 16

\* repr of a float >= 0: at least one digit after the point
FloatStr(v) ==
    IF v.d = 0 THEN "inf"
    ELSE LET whole == v.n \div v.d
             rem == v.n % v.d
         IN  ToString(whole) \o "." \o
             (IF rem = 0 THEN "0" ELSE FracDigits(rem, v.d, ReprDigits))

Str(v) ==
    CASE v.t = "none" -> "None"
      [] v.t = "str" -> v.s
      [] v.t = "int" -> ToString(v.n)
      [] OTHER -> FloatStr(v)

(***************************************************************************)
(* merge_and_dedupe_results (app.py).  A result is a dict: a function from *)
(* its keys to values; NonDict is a list entry that is no dict.            *)
(***************************************************************************)
NonDict == [nondict |-> None]
IsDict(r) == "nondict" \notin DOMAIN r

\* the key under which a result is filed
MergeKey(r) ==
    LET pid == Get(r, "providerFlightId")
    IN  IF Truthy(pid)
        THEN "pid::" \o Str(Get(r, "provider")) \o "::" \o Str(pid)
        ELSE "anon::" \o Str(Get(r, "provider")) \o "::" \o Str(Get(r, "origin"))
             \o "::" \o Str(Get(r, "destination")) \o "::"
             \o Str(Get(r, "departureTime")) \o "::" \o Str(Get(r, "price"))

\* src in lst
InList(src, lst) == \E i \in 1..Len(lst) : PyEq(lst[i], src)

\* r_copy = dict(r); r_copy["region_sources"] = [src] if src else []
CopyWithSources(r) ==
    LET src == Get(r, "region_source")
    IN  [region_sources |-> IF Truthy(src) THEN <<src>> ELSE <<>>] @@ r

\* index of the record filed under key, 0 when none is
SeenIndex(acc, key) ==
    IF \E i \in 1..Len(acc.seen) : acc.seen[i] = key
    THEN CHOOSE i \in 1..Len(acc.seen) : acc.seen[i] = key
    ELSE 0

\* mutant: a later duplicate replaces the fields of the record kept
MergeStep_LastWins(acc, r) ==
    IF ~IsDict(r) THEN acc
    ELSE LET key == MergeKey(r)
             i == SeenIndex(acc, key)
             src == Get(r, "region_source")
         IN  IF i # 0
             THEN LET old == acc.merged[i].region_sources
                      new == IF Truthy(src) /\ ~InList(src, old)
                             THEN Append(old, src) ELSE old
                  IN  [acc EXCEPT !.merged[i] = [region_sources |-> new] @@ r]
             ELSE [merged |-> Append(acc.merged, CopyWithSources(r)),
                   seen |-> Append(acc.seen, key)]

\* mutant: the region label is appended without looking for it in the list
MergeStep_NoLabelCheck(acc, r) ==
    IF ~IsDict(r) THEN acc
    ELSE LET key == MergeKey(r)
             i == SeenIndex(acc, key)
             src == Get(r, "region_source")
         IN  IF i # 0
             THEN IF Truthy(src)
                  THEN [acc EXCEPT !.merged[i].region_sources = Append(@, src)]
                  ELSE acc
             ELSE [merged |-> Append(acc.merged, CopyWithSources(r)),
                   seen |-> Append(acc.seen, key)]

\* The body of the for loop: acc.merged is the list built so far, acc.seen
\* the keys of its records (seen maps each key to its record in merged).
\* A non-dict entry raises on r.get and is skipped by the except clause.
MergeStep(acc, r) ==
    IF ~IsDict(r) THEN acc
    ELSE LET key == MergeKey(r)
             i == SeenIndex(acc, key)
             src == Get(r, "region_source")
         IN  IF i # 0
             THEN IF Truthy(src) /\ ~InList(src, acc.merged[i].region_sources)
                  THEN [acc EXCEPT !.merged[i].region_sources = Append(@, src)]
                  ELSE acc
             ELSE [merged |-> Append(acc.merged, CopyWithSources(r)),
                   seen |-> Append(acc.seen, key)]

RECURSIVE MergeLoop_StopsAtMalformed(_, _)
\* mutant: the try encloses the loop, a malformed entry ends the scan
MergeLoop_StopsAtMalformed(acc, all_results) ==
    IF all_results = <<>> \/ ~IsDict(Head(all_results)) THEN acc
    ELSE MergeLoop_StopsAtMalformed(MergeStep(acc, Head(all_results)), Tail(all_results))

RECURSIVE MergeLoop(_, _)
MergeLoop(acc, all_results) ==
    IF all_results = <<>> THEN acc
    ELSE MergeLoop(MergeStep(acc, Head(all_results)), Tail(all_results))

merge_and_dedupe_results(all_results) ==
    MergeLoop([merged |-> <<>>, seen |-> <<>>], all_results).merged

(***************************************************************************)
(* Results the downstream provider returns, and their tagging.             *)
(***************************************************************************)
OfferIn(pid, provider, price, cur) ==
    [providerFlightId |-> pid, provider |-> PStr(provider),
     origin |-> PStr("DEL"), destination |-> PStr("DXB"),
     departureTime |-> PStr("T1"), price |-> price, currency |-> PStr(cur)]

Offer(pid, provider, price) == OfferIn(pid, provider, price, "USD")

\* a dict without one of its keys
Without(r, key) == [k \in DOMAIN r \ {key} |-> r[k]]

\* the same, without the key providerFlightId
AnonOffer(provider, price) ==
    [provider |-> PStr(provider),
     origin |-> PStr("DEL"), destination |-> PStr("DXB"),
     departureTime |-> PStr("T1"), price |-> price, currency |-> PStr("USD")]

MergeOffers ==
    {Offer(PStr("F1"), "P", PInt(100)),
     Offer(PStr("F1"), "P", PInt(120)),
     Offer(PStr("F2"), "P", PInt(100)),
     AnonOffer("Q", PInt(100)),
     AnonOffer("Q", PFloat(100, 1)),
     Offer(PStr(""), "Q", PInt(100))}

Labels == {"IN", "AE"}

\* r["region_source"] = v
TagWith(r, v) == [region_source |-> v] @@ r
Tag(r, label) == TagWith(r, PStr(label))

RECURSIVE TagAll(_, _)
TagAll(lst, label) ==
    IF lst = <<>> THEN <<>> ELSE <<Tag(Head(lst), label)>> \o TagAll(Tail(lst), label)

MergeEntries ==
    MergeOffers \cup {Tag(o, l) : o \in MergeOffers, l \in Labels} \cup {NonDict}

SeqsUpTo(S, n) == UNION {[1..k -> S] : k \in 0..n}

MergeIdle == mpc = "idle" /\ minput = <<>> /\ moutput = <<>>

\* a call merge_and_dedupe_results(all_results)
MergeCall ==
    /\ mpc = "idle"
    /\ \E inp \in SeqsUpTo(MergeEntries, MaxList) :
        /\ minput' = inp
        /\ moutput' = merge_and_dedupe_results(inp)
    /\ mpc' = "done"
    /\ UNCHANGED <<retryVars, normVars, aggVars, queryVars>>

\* the same list returned by two regions: L tagged a followed by L tagged b
MergeTwice ==
    /\ mpc = "idle"
    /\ \E L \in SeqsUpTo(MergeOffers, MaxList), a \in Labels, b \in Labels :
        /\ minput' = TagAll(L, a) \o TagAll(L, b)
        /\ moutput' = merge_and_dedupe_results(TagAll(L, a) \o TagAll(L, b))
    /\ mpc' = "done"
    /\ UNCHANGED <<retryVars, normVars, aggVars, queryVars>>

(***************************************************************************)
(* Strings: the str methods and the pieces of regular expressions that     *)
(* parse_user_query uses (intent_parser.py).                               *)
(***************************************************************************)
LowerLetters == "abcdefghijklmnopqrstuvwxyz"
UpperLetters == "ABCDEFGHIJKLMNOPQRSTUVWXYZ"
DigitChars == "0123456789"

\* the i-th character of s
CharAt(s, i) == SubSeq(s, i, i)

\* the position of the character c in the alphabet abc, 0 when it is not there
IndexIn(abc, c) ==
    IF \E i \in 1..Len(abc) : CharAt(abc, i) = c
    THEN CHOOSE i \in 1..Len(abc) : CharAt(abc, i) = c
    ELSE 0

\* the characters of an alphabet
CharsOf(abc) == {CharAt(abc, i) : i \in 1..Len(abc)}
Digits == CharsOf(DigitChars)
Letters == CharsOf(LowerLetters) \cup CharsOf(UpperLetters)

\* each upper-case letter's lower-case letter, and the reverse
LowerOf == [c \in CharsOf(UpperLetters) |-> CharAt(LowerLetters, IndexIn(UpperLetters, c))]
UpperOf == [c \in CharsOf(LowerLetters) |-> CharAt(UpperLetters, IndexIn(LowerLetters, c))]

IsDigit(c) == c \in Digits
IsLetter(c) == c \in Letters
IsSpace(c) == c = " "
\* [a-zA-Z\s] and \w
IsLetterOrSpace(c) == IsLetter(c) \/ IsSpace(c)
IsWordChar(c) == IsLetter(c) \/ IsDigit(c) \/ c = "_"

LowerChar(c) == IF c \in DOMAIN LowerOf THEN LowerOf[c] ELSE c
UpperChar(c) == IF c \in DOMAIN UpperOf THEN UpperOf[c] ELSE c

RECURSIVE MapChars(_, _, _)
\* s with f applied to each character from position i on
MapChars(f(_), s, i) ==
    IF i > Len(s) THEN "" ELSE f(CharAt(s, i)) \o MapChars(f, s, i + 1)

\* s.lower() and s.upper()
Lower(s) == MapChars(LowerChar, s, 1)
UpperStr(s) == MapChars(UpperChar, s, 1)

RECURSIVE TitleFrom(_, _)
\* s.title(): a letter that follows no letter is upper-cased, the others lower-cased
TitleFrom(s, i) ==
    IF i > Len(s) THEN ""
    ELSE (IF i = 1 \/ ~IsLetter(CharAt(s, i - 1))
          THEN UpperChar(CharAt(s, i)) ELSE LowerChar(CharAt(s, i)))
         \o TitleFrom(s, i + 1)
Title(s) == TitleFrom(s, 1)

\* s.strip()
StripStr(s) ==
    LET inner == {i \in 1..Len(s) : ~IsSpace(CharAt(s, i))}
    IN  IF inner = {} THEN ""
        ELSE SubSeq(s, CHOOSE i \in inner : \A j \in inner : i <= j,
                       CHOOSE i \in inner : \A j \in inner : i >= j)

\* pat occurs in s at position i
MatchAt(s, i, pat) == i >= 1 /\ i + Len(pat) - 1 <= Len(s) /\ SubSeq(s, i, i + Len(pat) - 1) = pat

\* pat in s
Contains(s, pat) == \E i \in 1..(Len(s) + 1) : MatchAt(s, i, pat)

\* the least element of a non-empty set of numbers, and the greatest
Least(S) == CHOOSE i \in S : \A j \in S : i <= j
Greatest(S) == CHOOSE i \in S : \A j \in S : i >= j

\* the end of the longest run of characters satisfying ok that starts at
\* position i (i - 1 when the run is empty)
RunEnd(ok(_), s, i) ==
    LET stops == {j \in i..(Len(s) + 1) : j = Len(s) + 1 \/ ~ok(CharAt(s, j))}
    IN  Least(stops) - 1

RECURSIVE StrToInt(_)
\* int(s) of a string of digits
StrToInt(s) ==
    IF s = "" THEN 0
    ELSE 10 * StrToInt(SubSeq(s, 1, Len(s) - 1)) + (IndexIn(DigitChars, CharAt(s, Len(s))) - 1)

(***************************************************************************)
(* Dates: datetime.date as a record of year, month and day.                *)
(***************************************************************************)
Date(y, m, d) == [y |-> y, m |-> m, d |-> d]

IsLeap(y) == (y % 4 = 0 /\ y % 100 # 0) \/ y % 400 = 0

DaysInMonth(y, m) ==
    CASE m = 2 -> IF IsLeap(y) THEN 29 ELSE 28
      [] m \in {4, 6, 9, 11} -> 30
      [] OTHER -> 31

RECURSIVE DaysBeforeMonth(_, _)
DaysBeforeMonth(y, m) ==
    IF m = 1 THEN 0 ELSE DaysBeforeMonth(y, m - 1) + DaysInMonth(y, m - 1)

\* date.toordinal(): 1 is January 1 of year 1
ToOrdinal(dt) ==
    LET py == dt.y - 1
    IN  365 * py + (py \div 4) - (py \div 100) + (py \div 400)
        + DaysBeforeMonth(dt.y, dt.m) + dt.d

\* date.weekday(): Monday is 0
Weekday(dt) == (ToOrdinal(dt) + 6) % 7

NextDay(dt) ==
    IF dt.d < DaysInMonth(dt.y, dt.m) THEN Date(dt.y, dt.m, dt.d + 1)
    ELSE IF dt.m < 12 THEN Date(dt.y, dt.m + 1, 1)
    ELSE Date(dt.y + 1, 1, 1)

RECURSIVE AddDays(_, _)
\* dt + timedelta(days=n), n >= 0
AddDays(dt, n) == IF n = 0 THEN dt ELSE AddDays(NextDay(dt), n - 1)

RECURSIVE ZeroPad(_, _)
\* the decimal digits of n >= 0, padded with zeros to at least w characters
ZeroPad(n, w) ==
    IF n < 10 /\ w <= 1 THEN ToString(n)
    ELSE ZeroPad(n \div 10, w - 1) \o ToString(n % 10)

\* date.isoformat()
IsoFormat(dt) == ZeroPad(dt.y, 4) \o "-" \o ZeroPad(dt.m, 2) \o "-" \o ZeroPad(dt.d, 2)

MonthNames ==
    <<"january", "february", "march", "april", "may", "june", "july", "august",
      "september", "october", "november", "december">>

\* no date: strptime raised ValueError
NoDate == Date(0, 0, 0)

\* datetime.strptime(f"{d} {month_str} {year}", "%d %B %Y").date(): %B takes
\* a full month name in any case, %d a day of that month
Strptime(d, month_str, year) ==
    LET ms == {m \in 1..12 : MonthNames[m] = Lower(month_str)}
    IN  IF ms = {} THEN NoDate
        ELSE LET m == CHOOSE x \in ms : TRUE
             IN  IF d >= 1 /\ d <= DaysInMonth(year, m) THEN Date(year, m, d)
                 ELSE NoDate

\* WEEKDAYS, in the order of the dict
WeekdayNames ==
    <<"monday", "tuesday", "wednesday", "thursday", "friday", "saturday", "sunday">>

(***************************************************************************)
(* The regular expressions of parse_user_query, each as re.search runs it: *)
(* the leftmost match, greedy groups.  A match is a record with ok and its *)
(* groups; NoMatch is re.search returning None.                            *)
(***************************************************************************)
NoMatch == [ok |-> FALSE, g1 |-> "", g2 |-> "", g3 |-> ""]
Match(a, b, c) == [ok |-> TRUE, g1 |-> a, g2 |-> b, g3 |-> c]

\* the positions at which pat occurs in s
Occurrences(s, pat) == {p \in 1..Len(s) : MatchAt(s, p, pat)}

\* re.search: the match at the leftmost position that has one; tried is the
\* outcome of trying the pattern at each position
FirstOk(tried) ==
    IF \E p \in DOMAIN tried : tried[p].ok
    THEN tried[Least({p \in DOMAIN tried : tried[p].ok})]
    ELSE NoMatch

\* r"from ([a-zA-Z\s]+) to ([a-zA-Z\s]+)" tried at position p: the groups
\* lie in the run of letters and blanks after "from "; group 1 is greedy and
\* so ends at the last " to " of the run that leaves group 2 a character
RouteAt(s, p) ==
    LET e == RunEnd(IsLetterOrSpace, s, p + 5)
        qs == {q \in (p + 6)..(e - 4) : MatchAt(s, q, " to ")}
    IN  IF ~MatchAt(s, p, "from ") \/ qs = {} THEN NoMatch
        ELSE Match(SubSeq(s, p + 5, Greatest(qs) - 1),
                   SubSeq(s, Greatest(qs) + 4, e), "")

RouteSearch(s) == FirstOk([p \in 1..Len(s) |-> RouteAt(s, p)])

\* r"on (\d{1,2})(?:st|nd|rd|th)? (\w+)" tried at position p
CalendarAt(s, p) ==
    LET ds == p + 3
        de == RunEnd(IsDigit, s, ds)
        suffixed == \E sfx \in {"st", "nd", "rd", "th"} : MatchAt(s, de + 1, sfx)
        sp == IF suffixed THEN de + 3 ELSE de + 1
        we == RunEnd(IsWordChar, s, sp + 1)
    IN  IF /\ MatchAt(s, p, "on ")
           /\ de - ds + 1 \in {1, 2}
           /\ MatchAt(s, sp, " ")
           /\ we >= sp + 1
        THEN Match(SubSeq(s, ds, de), SubSeq(s, sp + 1, we), "")
        ELSE NoMatch

CalendarSearch(s) == FirstOk([p \in 1..Len(s) |-> CalendarAt(s, p)])

\* r" ?₹?(\d+)" tried at position i: the digits found, "" when there are none
\* (end is the position of the last digit)
NumberAt(s, i) ==
    LET a == IF MatchAt(s, i, " ") THEN i + 1 ELSE i
        b == IF MatchAt(s, a, "₹") THEN a + 1 ELSE a
        e == RunEnd(IsDigit, s, b)
    IN  [digits |-> SubSeq(s, b, e), end |-> e]

\* r"between ?₹?(\d+) and ?₹?(\d+)" tried at position p
BetweenAt(s, p) ==
    LET x == NumberAt(s, p + 7)
        y == NumberAt(s, x.end + 5)
    IN  IF /\ MatchAt(s, p, "between") /\ x.digits # ""
           /\ MatchAt(s, x.end + 1, " and") /\ y.digits # ""
        THEN Match(x.digits, y.digits, "")
        ELSE NoMatch

BetweenSearch(s) == FirstOk([p \in 1..Len(s) |-> BetweenAt(s, p)])

\* r"(?:w1|w2) ?₹?(\d+)" tried at position p
WordNumberAt(s, p, words) ==
    LET ws == {w \in words : MatchAt(s, p, w)}
    IN  IF ws = {} THEN NoMatch
        ELSE LET w == CHOOSE x \in ws : TRUE
                 x == NumberAt(s, p + Len(w))
             IN  IF x.digits # "" THEN Match(x.digits, "", "") ELSE NoMatch

WordNumberSearch(s, words) == FirstOk([p \in 1..Len(s) |-> WordNumberAt(s, p, words)])

\* r"<word> (\d{1,2})(?:[:\.](\d{2}))?\s*(am|pm)?" tried at position p, for
\* word "after" or "before"
TimeAt(s, p, word) ==
    LET ds == p + Len(word) + 1
        run == RunEnd(IsDigit, s, ds)
        de == IF run > ds + 1 THEN ds + 1 ELSE run
        mins == /\ (MatchAt(s, de + 1, ":") \/ MatchAt(s, de + 1, "."))
                /\ de + 3 <= Len(s)
                /\ IsDigit(CharAt(s, de + 2)) /\ IsDigit(CharAt(s, de + 3))
        me == IF mins THEN de + 3 ELSE de
        se == RunEnd(IsSpace, s, me + 1)
        half == IF MatchAt(s, se + 1, "am") THEN "am"
                ELSE IF MatchAt(s, se + 1, "pm") THEN "pm" ELSE ""
    IN  IF MatchAt(s, p, word \o " ") /\ de >= ds
        THEN Match(SubSeq(s, ds, de), IF mins THEN SubSeq(s, de + 2, de + 3) ELSE "", half)
        ELSE NoMatch

TimeSearch(s, word) == FirstOk([p \in 1..Len(s) |-> TimeAt(s, p, word)])

\* r"(\d+)\s*(cheapest|flights)" tried at position p
LimitAt(s, p) ==
    LET de == RunEnd(IsDigit, s, p)
        se == RunEnd(IsSpace, s, de + 1)
        ws == {w \in {"cheapest", "flights"} : MatchAt(s, se + 1, w)}
    IN  IF de >= p /\ ws # {}
        THEN Match(SubSeq(s, p, de), CHOOSE w \in ws : TRUE, "")
        ELSE NoMatch

LimitSearch(s) == FirstOk([p \in 1..Len(s) |-> LimitAt(s, p)])

(***************************************************************************)
(* parse_user_query (intent_parser.py): the rules in source order, each    *)
(* taking the query dict built so far and the lower-cased text.            *)
(***************************************************************************)
\* query[k] = v
SetKey(q, k, v) == [x \in DOMAIN q \cup {k} |-> IF x = k THEN v ELSE q[x]]

\* query: Dict = {}
EmptyDict == [x \in {} |-> None]

\* if m: origin and destination from the groups of the match
SetRoute(q, m) ==
    IF m.ok
    THEN SetKey(SetKey(q, "origin", PStr(UpperStr(StripStr(m.g1)))),
                "destination", PStr(UpperStr(StripStr(m.g2))))
    ELSE q

\* 1: origin and destination
RuleRoute(q, s) == SetRoute(q, RouteSearch(s))

\* the first weekday name of WEEKDAYS found in the text, 0 when none is
FirstWeekday(s) ==
    LET found == {i \in 1..7 : Contains(s, WeekdayNames[i])}
    IN  IF found = {} THEN 0 ELSE Least(found)

\* the weekday loop: departDate from the weekday w found (0: none), Monday being 1
SetWeekdayDate(q, w, today) ==
    IF w # 0
    THEN SetKey(q, "departDate",
                PStr(IsoFormat(AddDays(today, ((w - 1) - Weekday(today)) % 7))))
    ELSE q

\* if m: try: departDate from the date depart_dt that strptime gave, if any
SetCalendarDate(q, m, depart_dt) ==
    IF m.ok /\ depart_dt # NoDate
    THEN SetKey(q, "departDate", PStr(IsoFormat(depart_dt)))
    ELSE q

\* the calendar-date rule on the match m of its pattern
CalendarDate(q, m, today) ==
    SetCalendarDate(q, m, Strptime(StrToInt(m.g1), m.g2, today.y))

\* the else branch of the date rule: a weekday name, then a calendar date
RuleWeekdayThenCalendar(q, s, today) ==
    CalendarDate(SetWeekdayDate(q, FirstWeekday(s), today), CalendarSearch(s), today)

\* 2: dates
RuleDates(q, s, today) ==
    IF Contains(s, "today") THEN SetKey(q, "departDate", PStr(IsoFormat(today)))
    ELSE IF Contains(s, "tomorrow")
    THEN SetKey(q, "departDate", PStr(IsoFormat(AddDays(today, 1))))
    ELSE IF Contains(s, "next weekend")
    THEN LET depart == AddDays(today, (5 - Weekday(today)) % 7)
         IN  SetKey(SetKey(q, "departDate", PStr(IsoFormat(depart))),
                    "returnDate", PStr(IsoFormat(AddDays(depart, 1))))
    ELSE RuleWeekdayThenCalendar(q, s, today)

\* 3: round trip
RuleRoundTrip(q, s, today) ==
    IF (Contains(s, "return") \/ Contains(s, "round trip")) /\ "returnDate" \notin DOMAIN q
    THEN SetKey(q, "returnDate", PStr(IsoFormat(AddDays(today, 3))))
    ELSE q

\* float(digits)
FloatOf(digits) == PFloat(StrToInt(digits), 1)

\* if m: the bound named key from the number matched, and the intent
SetBound(q, key, m) ==
    IF m.ok
    THEN SetKey(SetKey(q, key, FloatOf(m.g1)), "intent", PStr("price_range"))
    ELSE q

\* the price rule on the match b of the between pattern
PriceWith(q, s, b) ==
    IF b.ok
    THEN SetKey(SetKey(SetKey(q, "minPrice", FloatOf(b.g1)),
                       "maxPrice", FloatOf(b.g2)), "intent", PStr("price_range"))
    ELSE IF Contains(s, "under") \/ Contains(s, "below")
    THEN SetBound(q, "maxPrice", WordNumberSearch(s, {"under", "below"}))
    ELSE IF Contains(s, "above") \/ Contains(s, "over")
    THEN SetBound(q, "minPrice", WordNumberSearch(s, {"above", "over"}))
    ELSE q

\* 4: price range
RulePrice(q, s) == PriceWith(q, s, BetweenSearch(s))

\* f"{hour:02d}:00" of a time match
HourString(m) ==
    LET h == StrToInt(m.g1)
        hour == IF m.g3 = "pm" /\ h < 12 THEN h + 12 ELSE h
    IN  ZeroPad(hour, 2) \o ":00"

\* if m: the time filter named key from the hour matched
SetTime(q, key, m) == IF m.ok THEN SetKey(q, key, PStr(HourString(m))) ELSE q

\* 5: time filters
RuleTime(q, s) ==
    SetTime(SetTime(q, "departAfter", TimeSearch(s, "after")),
            "departBefore", TimeSearch(s, "before"))

airline_keywords == <<"emirates", "air india", "indigo", "qatar", "lufthansa", "spicejet">>

RECURSIVE AirlineLoop(_, _, _)
AirlineLoop(q, s, i) ==
    IF i > Len(airline_keywords) THEN q
    ELSE AirlineLoop(IF Contains(s, airline_keywords[i])
                     THEN SetKey(SetKey(q, "airline", PStr(Title(airline_keywords[i]))),
                                 "intent", PStr("airline_filter"))
                     ELSE q,
                     s, i + 1)

\* 6: airline preference
RuleAirline(q, s) == AirlineLoop(q, s, 1)

\* 7: stops
RuleStops(q, s) ==
    IF Contains(s, "nonstop") \/ Contains(s, "non-stop") \/ Contains(s, "direct")
    THEN SetKey(SetKey(q, "stops", PInt(0)), "intent", PStr("direct"))
    ELSE IF Contains(s, "1-stop") \/ Contains(s, "one stop")
    THEN SetKey(q, "stops", PInt(1))
    ELSE q

\* 8: cabin
RuleCabin(q, s) ==
    IF Contains(s, "business")
    THEN SetKey(SetKey(q, "cabinClass", PStr("Business")), "intent", PStr("cabin_filter"))
    ELSE IF Contains(s, "premium economy")
    THEN SetKey(SetKey(q, "cabinClass", PStr("Premium Economy")),
                "intent", PStr("cabin_filter"))
    ELSE IF Contains(s, "economy")
    THEN SetKey(q, "cabinClass", PStr("Economy"))
    ELSE q

\* 9: multi-day compare
RuleCompare(q, s) ==
    IF Contains(s, "compare") /\ FirstWeekday(s) # 0
    THEN SetKey(q, "intent", PStr("day_compare"))
    ELSE q

\* mutant: the cheap fallback leaves an intent that is already set
RuleCheap_KeepsIntent(q, s) ==
    IF (Contains(s, "cheap") \/ Contains(s, "lowest") \/ Contains(s, "affordable"))
       /\ "intent" \notin DOMAIN q
    THEN SetKey(q, "intent", PStr("cheapest"))
    ELSE q

\* 10: cheap fallback intent
RuleCheap(q, s) ==
    IF Contains(s, "cheap") \/ Contains(s, "lowest") \/ Contains(s, "affordable")
    THEN SetKey(q, "intent", PStr("cheapest"))
    ELSE q

\* if m: the limit from the number matched
SetLimit(q, m) == IF m.ok THEN SetKey(q, "limit", PInt(StrToInt(m.g1))) ELSE q

\* 11: numeric limits
RuleLimit(q, s) == SetLimit(q, LimitSearch(s))

\* 12: default fallback intent
RuleDefault(q) ==
    IF "intent" \notin DOMAIN q THEN SetKey(q, "intent", PStr("cheapest")) ELSE q

\* the rules 1 to 12 applied in source order to the empty query, each to
\* the query the one before it left
ApplyRules(text_lower, today) ==
    RuleDefault(
      RuleLimit(
        RuleCheap(
          RuleCompare(
            RuleCabin(
              RuleStops(
                RuleAirline(
                  RuleTime(
                    RulePrice(
                      RuleRoundTrip(
                        RuleDates(
                          RuleRoute(EmptyDict, text_lower),
                          text_lower, today),
                        text_lower, today),
                      text_lower),
                    text_lower),
                  text_lower),
                text_lower),
              text_lower),
            text_lower),
          text_lower),
        text_lower))

\* parse_user_query(text), with date.today() = today
parse_user_query(text, today) == ApplyRules(Lower(text), today)

(***************************************************************************)
(* FlightQuery.validate_intent (models/flight_models.py).                  *)
(***************************************************************************)
allowed == {"cheapest", "price_range", "earliest", "direct", "cabin_filter", "day_compare"}

\* mutant: the validator lets every supplied value through
validate_intent_KeepsUnknown(v) == v

\* the validator of the field intent, run on the value supplied
validate_intent(v) ==
    IF v.t = "str" /\ v.s \in allowed THEN v ELSE PStr("cheapest")

(***************************************************************************)
(* The structured search endpoint, orchestrate_search (app.py): the        *)
(* framework builds a FlightQuery from the posted JSON object, the handler *)
(* hands query.dict() to aggregate_flight_search_tool and summarises the   *)
(* results.  Requests carry no session_id.                                 *)
(***************************************************************************)
\* a JSON array, which no set can hold ("v not in allowed" raises TypeError)
PList == [t |-> "list", s |-> "", n |-> 0, d |-> 1]
Hashable(v) == v.t # "list"

\* the values a client supplies for intent; Absent: the key is left out
SuppliedIntents ==
    {Absent, None, PStr("airline_filter"), PStr("fastest"), PStr(""), PStr("Cheapest"),
     PInt(5), PList}
    \cup {PStr(a) : a \in allowed}

\* the values a client supplies for origin and for destination
SuppliedPlaces(code) == {Absent, None, PStr(""), PStr(code)}

WithSupplied(data, k, v) == IF v = Absent THEN data ELSE SetKey(data, k, v)

RequestBodies ==
    {WithSupplied(WithSupplied(WithSupplied(EmptyDict, "origin", o), "destination", d),
                  "intent", i) :
        o \in SuppliedPlaces("DEL"), d \in SuppliedPlaces("DXB"), i \in SuppliedIntents}

NotBuilt(why) == [state |-> why, dict |-> EmptyDict]

\* FlightQuery(**data): origin and destination are required strings, a field
\* left out takes its default, and the validator runs on a supplied intent only
FlightQuery(data) ==
    IF ~(Get(data, "origin").t = "str" /\ Get(data, "destination").t = "str")
    THEN NotBuilt("ValidationError")
    ELSE IF "intent" \in DOMAIN data /\ ~Hashable(data["intent"])
    THEN NotBuilt("TypeError")
    ELSE [state |-> "built",
          dict |-> [origin |-> data["origin"],
                    destination |-> data["destination"],
                    departDate |-> None,
                    passengers |-> PInt(1),
                    cabinClass |-> PStr("Economy"),
                    currency |-> PStr("INR"),
                    limit |-> PInt(10),
                    minPrice |-> None,
                    maxPrice |-> None,
                    intent |-> IF "intent" \in DOMAIN data
                               THEN validate_intent(data["intent"])
                               ELSE PStr("cheapest")]]

QueryIdle ==
    /\ request_body = EmptyDict /\ query = NotBuilt("none")
    /\ search_response = NoResult

\* POST /agent/search up to the first request of the search client
OrchestrateSearch ==
    /\ rpc = "idle" /\ query.state = "none"
    /\ \E data \in RequestBodies :
        \E built \in {FlightQuery(data)} :
          /\ request_body' = data /\ query' = built
          /\ IF built.state # "built"
             THEN /\ search_response' = Raised(built.state, "no FlightQuery")
                  /\ UNCHANGED <<rpc, fn, result, flight_query, method, max_retries,
                                 base_delay, attempt>>
             ELSE /\ fn' = "tool" /\ flight_query' = built.dict
                  /\ UNCHANGED search_response
                  /\ IF ~Truthy(Get(built.dict, "origin"))
                        \/ ~Truthy(Get(built.dict, "destination"))
                     THEN /\ rpc' = "done"
                          /\ result' = OrchestratorException(
                                 "Origin and destination are required",
                                 "INVALID_FLIGHT_QUERY", 400)
                          /\ UNCHANGED <<method, max_retries, base_delay, attempt>>
                     ELSE /\ rpc' = "loop" /\ method' = "POST"
                          /\ max_retries' = DefaultMaxRetries
                          /\ base_delay' = DefaultBaseDelay /\ attempt' = 1
                          /\ UNCHANGED result
    /\ UNCHANGED <<outcomes, sleeps>>
    /\ UNCHANGED <<normVars, mergeVars, aggVars>>

\* what call_openai_sync(summary_prompt) ends with
SummaryOutcomes == {"summary", "key_missing", "api_error"}

call_openai_sync(o) ==
    CASE o = "key_missing" ->
            OrchestratorException("OPENAI_API_KEY not configured",
                                  "OPENAI_KEY_MISSING", 500)
      [] o = "api_error" ->
            OrchestratorException("OpenAI API error", "OPENAI_API_ERROR", 502)
      [] OTHER -> Returned(<<"ok">>)

\* except OrchestratorException: raise oe; except Exception: SEARCH_ERROR
SearchExcept(r) ==
    IF r.kind = "raise" /\ r.exc # "OrchestratorException"
    THEN OrchestratorException("Unexpected error while searching flights",
                               "SEARCH_ERROR", 500)
    ELSE r

\* the rest of the handler, once the tool has returned or raised
SearchRespond ==
    /\ rpc = "done" /\ query.state = "built" /\ search_response = NoResult
    /\ \E o \in SummaryOutcomes :
        search_response' =
            SearchExcept(IF result.kind = "raise" THEN result ELSE call_openai_sync(o))
    /\ UNCHANGED <<retryVars, normVars, mergeVars, aggVars, request_body, query>>

(***************************************************************************)
(* The texts and reference dates the parser is run on.                     *)
(***************************************************************************)
\* phrases of the intent-setting rules, in text order of the rules
IntentTexts ==
    {p \o a \o st \o c \o cmp \o ch :
        p \in {"", "between 100 and 500 ", "under 300 ", "under budget over 200 "},
        a \in {"", "emirates ", "Indigo qatar "},
        st \in {"", "direct ", "one stop "},
        c \in {"", "business ", "economy "},
        cmp \in {"", "compare monday "},
        ch \in {"", "cheapest "}}

\* the numbers written in a "between X and Y" phrase
PriceNumbers == {0, 100, 500, 1000}
BetweenTexts ==
    {"flights between " \o ToString(x) \o " and " \o ToString(y) :
        x \in PriceNumbers, y \in PriceNumbers}

\* phrases of the date rules and of the round-trip rule
DateTexts ==
    {a \o b \o c \o w \o cal \o r :
        a \in {"", "today "}, b \in {"", "tomorrow "}, c \in {"", "next weekend "},
        w \in {"", "friday ", "sunday monday "},
        cal \in {"", "on 15 november ", "on 31st November ", "on 3rd mar "},
        r \in {"", "return"}}

\* the same phrases in another order, routes, times and limits
OtherTexts ==
    {"Flights FROM Delhi TO Dubai tomorrow", "from new delhi to abu dhabi to london",
     "cheap flights between ₹200 and ₹100 on qatar", "on 15 november monday",
     "tomorrow today", "affordable direct business emirates",
     "after 5pm before 11 am", "after 25", "5 cheapest flights", "london 12 december",
     "emirates from delhi to dubai", "from delhi to dubai direct",
     "flights above 500"}

Texts == (IntentTexts \cup BetweenTexts \cup DateTexts \cup OtherTexts) \ {""}
Todays == {Date(2026, 11, 1), Date(2026, 11, 11), Date(2025, 12, 30), Date(2024, 2, 28)}

(***************************************************************************)
(* The multi-region flow of handle_text_query (app.py): one search call    *)
(* per region, then merge, normalisation and sort.                         *)
(***************************************************************************)
RegionIN == [country |-> PStr("IN"), currency |-> PStr("INR"), region |-> PStr("IN")]
RegionAE == [country |-> PStr("AE"), currency |-> None, region |-> PStr("AE")]
RegionHint == [country |-> None, currency |-> PStr("USD"), region |-> None]

\* a or b
Or(a, b) == IF Truthy(a) THEN a ELSE b

\* isinstance(x, str) and isinstance(x, dict) of an entry of device["regions"]
IsStrEntry(x) == "t" \in DOMAIN x /\ x.t = "str"
IsDictEntry(x) == "t" \notin DOMAIN x

\* What the IP geolocation provider answers: it is not configured, the
\* request fails, the status is not 200, the body is no JSON object, or the
\* body is the JSON object whose keys are the other fields of the record.
GeoObject(data) == [kind |-> "object"] @@ data
GeoOutcomes ==
    {[kind |-> k] : k \in {"unconfigured", "error", "status", "notobject"}}
    \cup {GeoObject([country |-> PStr("AE"), currency |-> PStr("AED")]),
          GeoObject([country_code |-> PStr("US"), currency_code |-> PStr("USD")]),
          GeoObject([country |-> None]),
          GeoObject([currency |-> PStr("EUR")])}

DefaultRegion == [country |-> PStr("IN"), currency |-> PStr("INR"), region |-> PStr("IN")]

\* mutant: a status other than 200 gives a region with nothing in it
detect_region_from_ip_EmptyOnStatus(ip_address, geo) ==
    IF ~Truthy(ip_address) THEN DefaultRegion
    ELSE IF geo.kind = "object"
    THEN LET country == GetOr(geo, "country", GetOr(geo, "country_code", PStr("IN")))
             currency == GetOr(geo, "currency", GetOr(geo, "currency_code", PStr("INR")))
         IN  [country |-> country, currency |-> currency, region |-> country]
    ELSE IF geo.kind = "status"
    THEN [country |-> None, currency |-> None, region |-> None]
    ELSE DefaultRegion

\* detect_region_from_ip(ip_address), geo being what the provider answers
detect_region_from_ip(ip_address, geo) ==
    IF ~Truthy(ip_address) THEN DefaultRegion
    ELSE IF geo.kind = "object"
    THEN LET country == GetOr(geo, "country", GetOr(geo, "country_code", PStr("IN")))
             currency == GetOr(geo, "currency", GetOr(geo, "currency_code", PStr("INR")))
         IN  [country |-> country, currency |-> currency, region |-> country]
    ELSE DefaultRegion

\* the body of the loop over device["regions"]: the regions one entry adds
RegionsOfEntry(x) ==
    IF IsStrEntry(x) THEN <<[country |-> x, currency |-> None, region |-> x]>>
    ELSE IF IsDictEntry(x)
    THEN <<[country |-> Or(Get(x, "country"), Get(x, "region")),
            currency |-> Get(x, "currency"),
            region |-> Or(Get(x, "region"), Get(x, "country"))]>>
    ELSE <<>>

RECURSIVE RegionsOfEntries(_)
RegionsOfEntries(lst) ==
    IF lst = <<>> THEN <<>> ELSE RegionsOfEntry(Head(lst)) \o RegionsOfEntries(Tail(lst))

\* device.get("regions"): None when the key is missing
RegionsInput(device) == IF "regions" \in DOMAIN device THEN device.regions ELSE <<>>

\* The region resolution of handle_text_query: the explicit list, else the
\* device hints, else the IP address.
ResolveRegions(device, ip_address, geo) ==
    IF RegionsInput(device) # <<>>
    THEN RegionsOfEntries(RegionsInput(device))
    ELSE IF Truthy(Get(device, "country")) \/ Truthy(Get(device, "currency"))
    THEN <<[country |-> Get(device, "country"), currency |-> Get(device, "currency"),
            region |-> Get(device, "region")]>>
    ELSE <<detect_region_from_ip(ip_address, geo)>>

\* entries a client can put in device["regions"]
RegionInputs ==
    {PStr("IN"), PStr("AE"), RegionIN, [region |-> PStr("EU")], PInt(42), None}

\* device dicts: an explicit list, hints, or neither
Devices ==
    {[regions |-> l] : l \in SeqsUpTo(RegionInputs, MaxRegions)}
    \cup {[country |-> PStr("AE")], [currency |-> PStr("USD")],
          [country |-> PStr("US"), currency |-> PStr("USD"), region |-> PStr("NA")],
          [country |-> None], [region |-> PStr("EU")], [country |-> PStr("")]}

IpAddresses == {None, PStr(""), PStr("203.0.113.7")}

\* detect_currency_from_text(text): the first key of the dict found in the text
CurrencyWords ==
    <<<<"usd", "USD">>, <<"inr", "INR">>, <<"euro", "EUR">>, <<"eur", "EUR">>,
      <<"pound", "GBP">>, <<"gbp", "GBP">>, <<"aed", "AED">>, <<"dirham", "AED">>>>

\* the loop over the dict, on the lower-cased text
CurrencyLoop(low) ==
    LET found == {i \in 1..Len(CurrencyWords) : Contains(low, CurrencyWords[i][1])}
    IN  IF found = {} THEN None ELSE PStr(CurrencyWords[Least(found)][2])

detect_currency_from_text(text) == CurrencyLoop(Lower(text))

\* reg.get("region") or reg.get("country") or "unknown"
RegionLabel(reg) ==
    IF Truthy(Get(reg, "region")) THEN Get(reg, "region")
    ELSE IF Truthy(Get(reg, "country")) THEN Get(reg, "country")
    ELSE PStr("unknown")

RECURSIVE TagAllWith(_, _)
TagAllWith(lst, v) ==
    IF lst = <<>> THEN <<>> ELSE <<TagWith(Head(lst), v)>> \o TagAllWith(Tail(lst), v)

PipelineOffers ==
    {OfferIn(PStr("F1"), "P", PInt(100), "USD"),
     OfferIn(PStr("F1"), "P", PInt(120), "USD"),
     OfferIn(PStr("F2"), "P", PInt(1), "EUR"),
     Without(OfferIn(PStr("F3"), "P", None, "EUR"), "price"),
     OfferIn(PStr("F4"), "P", None, "USD"),
     OfferIn(PStr("F5"), "P", PFloat(141, 2), "INR")}

PipelineTables ==
    {EmptyTable,
     [c \in Currencies |-> IF c = "EUR" THEN Absent ELSE PFloat(1, 1)],
     [c \in Currencies |-> IF c = "INR" THEN PFloat(1, 2) ELSE PFloat(1, 1)],
     [c \in Currencies |-> IF c = "INR" THEN PInt(0) ELSE PFloat(1, 1)]}

DisplayCurrencies == {None, PStr("USD"), PStr("INR")}
\* the texts, the reference date and the devices of the requests of the full flow
PipelineTexts == {"", "cheap flights", "from delhi to dubai"}
PipelineToday == Date(2026, 11, 1)
PipelineDevices ==
    {[regions |-> <<RegionIN>>],
     [regions |-> <<RegionIN, PStr("AE")>>],
     [regions |-> <<PStr("AE"), PStr("AE")>>],
     [regions |-> <<[currency |-> PStr("USD")], RegionIN>>],
     [regions |-> <<PInt(42)>>]}

\* What call_mcp_search(fq_payload) can end with: a list of results, or an
\* exception.  n bounds the length of the list.
SearchOutcomes(n) ==
    {[ok |-> TRUE, results |-> l] : l \in SeqsUpTo(PipelineOffers, n)}
    \cup {[ok |-> FALSE, results |-> <<>>]}

\* +infinity, float('inf')
Inf == [t |-> "float", s |-> "", n |-> 1, d |-> 0]

\* round(x, 2): an int is returned as it is, a float goes to the nearest
\* hundredth, a tie to the even one
Round2(v) ==
    IF v.t = "int" THEN v
    ELSE LET h == (v.n * 100) \div v.d
             rem == (v.n * 100) % v.d
             up == 2 * rem > v.d \/ (2 * rem = v.d /\ h % 2 = 1)
         IN  PFloat(IF up THEN h + 1 ELSE h, 100)

\* The body of the normalisation loop for one merged record: the two
\* fields are added when normalize_price returns a value that round accepts.
NormalizeOne(r, dc, tb) ==
    LET normalized == normalize_price(GetOr(r, "price", PFloat(0, 1)),
                                      GetOr(r, "currency", PStr("")), dc, tb)
    IN  IF normalized # None /\ IsNum(normalized)
        THEN [_price_normalized |-> Round2(normalized), _display_currency |-> dc] @@ r
        ELSE r

\* mutant: a record that could not be normalised is left out of the list
NormalizeAll_DropsFailed(lst, dc, tb) ==
    SelectSeq([i \in 1..Len(lst) |-> NormalizeOne(lst[i], dc, tb)],
              LAMBDA x : "_price_normalized" \in DOMAIN x)

NormalizeAll(lst, dc, tb) == [i \in 1..Len(lst) |-> NormalizeOne(lst[i], dc, tb)]

\* mutant: the sort looks at the raw price only
SortKey_RawPrice(x, byNormalized) == GetOr(x, "price", Inf)

\* the sort key: x.get("_price_normalized", x.get("price", inf)) when a
\* display currency is set, x.get("price", inf) otherwise
SortKey(x, byNormalized) ==
    IF byNormalized
    THEN GetOr(x, "_price_normalized", GetOr(x, "price", Inf))
    ELSE GetOr(x, "price", Inf)

\* list.sort compares keys with <: a key that is no number (None) raises
\* TypeError as soon as two elements are compared
SortRaises(lst, byNormalized) ==
    Len(lst) >= 2 /\ \E i \in 1..Len(lst) : ~IsNum(SortKey(lst[i], byNormalized))

RECURSIVE InsertByKey(_, _, _)
\* x placed after every element whose key is not greater (the sort is stable)
InsertByKey(sorted, x, byNormalized) ==
    IF sorted = <<>> THEN <<x>>
    ELSE IF NumLess(SortKey(x, byNormalized), SortKey(Head(sorted), byNormalized))
         THEN <<x>> \o sorted
         ELSE <<Head(sorted)>> \o InsertByKey(Tail(sorted), x, byNormalized)

RECURSIVE SortByKey(_, _)
SortByKey(lst, byNormalized) ==
    IF lst = <<>> THEN <<>>
    ELSE InsertByKey(SortByKey(SubSeq(lst, 1, Len(lst) - 1), byNormalized),
                     lst[Len(lst)], byNormalized)

\* The statements after the region loop: merge, normalise, sort.
Aggregate(agg) ==
    LET m == merge_and_dedupe_results(agg)
        byNormalized == Truthy(display_currency)
        lst == IF byNormalized THEN NormalizeAll(m, display_currency, rates) ELSE m
    IN  /\ merged' = m
        /\ IF SortRaises(lst, byNormalized)
           THEN /\ ranked' = <<>> /\ apc' = "error"
                /\ perror' = "QUERY_PROCESSING_ERROR"
           ELSE /\ ranked' = SortByKey(lst, byNormalized) /\ apc' = "ranked"
                /\ perror' = ""

\* the part of aggVars that the region loop and the later steps leave alone
requestVars ==
    <<req_text, req_today, req_device, req_ip, req_geo, parsed, regions, display_currency, rates>>

\* mutant: the loop over the regions ends after its first iteration
RegionsLeft_StopsAfterFirst(idx, regs) == FALSE

\* for reg in regions: another region follows the one at position idx
RegionsLeft(idx, regs) == idx < Len(regs)

\* mutant: the exception of the search call is not caught
TryCallMcpSearch_Propagates(out) ==
    [raised |-> ~out.ok, results |-> IF out.ok THEN out.results ELSE <<>>]

\* try: results = call_mcp_search(fq_payload) / except Exception: results = []
TryCallMcpSearch(out) ==
    [raised |-> FALSE, results |-> IF out.ok THEN out.results ELSE <<>>]

\* fq_payload of the region reg: the parsed query with the currency set
FqPayload(q, txt, reg) ==
    SetKey(q, "currency",
           Or(Or(Or(detect_currency_from_text(txt), Get(reg, "currency")),
                 Get(q, "currency")),
              PStr("INR")))

\* A request arrives: the text is checked and parsed and the regions are
\* resolved; with no region the loop is skipped and the handler goes on to
\* merge, normalise and sort.
StartWith(texts, todays, devices, ips, geos) ==
    /\ apc = "idle"
    /\ \E t \in texts, td \in todays, dev \in devices, ip \in ips, geo \in geos :
        /\ req_text' = t /\ req_today' = td /\ req_device' = dev /\ req_ip' = ip
        /\ req_geo' = geo
        /\ IF t = ""
           THEN /\ apc' = "error" /\ perror' = "EMPTY_QUERY"
                /\ UNCHANGED <<parsed, regions, merged, ranked>>
           ELSE \E rl \in {ResolveRegions(dev, ip, geo)} :
                /\ parsed' = parse_user_query(t, td)
                /\ regions' = rl
                /\ IF rl = <<>>
                   THEN Aggregate(<<>>)
                   ELSE /\ apc' = "search"
                        /\ UNCHANGED <<merged, ranked, perror>>
    /\ regIdx' = 1
    /\ UNCHANGED <<settled, region_results, fq_payloads, aggregated_results,
                   display_currency, rates>>
    /\ UNCHANGED <<retryVars, normVars, mergeVars, queryVars>>

\* the requests of the full flow
StartRequest ==
    StartWith(PipelineTexts, {PipelineToday}, PipelineDevices, {None},
              {[kind |-> "unconfigured"]})

\* requests over every text and reference date of the model
ParseRequest ==
    StartWith(Texts, Todays, {[regions |-> <<>>]}, {None}, {[kind |-> "unconfigured"]})

\* requests over every device, IP address and provider answer of the model
ResolveRequest == StartWith({"flights"}, {PipelineToday}, Devices, IpAddresses, GeoOutcomes)

\* One iteration of the region loop, with what the search call ended with;
\* after the last region the handler goes on to merge, normalise and sort.
SearchRegion ==
    /\ apc = "search"
    /\ \E fq_payload \in {FqPayload(parsed, req_text, regions[regIdx])} :
           IF ~Truthy(Get(fq_payload, "origin")) \/ ~Truthy(Get(fq_payload, "destination"))
           THEN /\ apc' = "error" /\ perror' = "INVALID_QUERY"
                /\ UNCHANGED <<regIdx, settled, region_results, fq_payloads,
                               aggregated_results, merged, ranked>>
           ELSE \E out \in SearchOutcomes(MaxResults - Len(aggregated_results)) :
                  LET call == TryCallMcpSearch(out)
                      agg == aggregated_results
                                \o TagAllWith(call.results, RegionLabel(regions[regIdx]))
                  IN  /\ fq_payloads' = Append(fq_payloads, fq_payload)
                      /\ settled' = Append(settled, IF out.ok THEN "ok" ELSE "failed")
                      /\ IF call.raised
                         THEN /\ apc' = "error" /\ perror' = "QUERY_PROCESSING_ERROR"
                              /\ UNCHANGED <<regIdx, region_results, aggregated_results,
                                             merged, ranked>>
                         ELSE /\ region_results' = Append(region_results, call.results)
                              /\ aggregated_results' = agg
                              /\ IF RegionsLeft(regIdx, regions)
                                 THEN /\ regIdx' = regIdx + 1
                                      /\ UNCHANGED <<apc, merged, ranked, perror>>
                                 ELSE /\ Aggregate(agg)
                                      /\ UNCHANGED regIdx
    /\ UNCHANGED requestVars
    /\ UNCHANGED <<retryVars, normVars, mergeVars, queryVars>>

\* The summary call and the response: call_openai_sync returns or raises.
Respond ==
    /\ apc = "ranked"
    /\ \E ok \in BOOLEAN :
        IF ok THEN apc' = "done" /\ perror' = ""
        ELSE apc' = "error" /\ perror' = "OPENAI_API_ERROR"
    /\ UNCHANGED <<regIdx, settled, region_results, fq_payloads, aggregated_results,
                   merged, ranked>>
    /\ UNCHANGED requestVars
    /\ UNCHANGED <<retryVars, normVars, mergeVars, queryVars>>

(***************************************************************************)
(* Specifications.                                                         *)
(***************************************************************************)
AggIdle ==
    /\ apc = "idle" /\ parsed = ValidQuery /\ regions = <<>> /\ regIdx = 1
    /\ settled = <<>> /\ aggregated_results = <<>> /\ merged = <<>>
    /\ ranked = <<>> /\ display_currency = None /\ perror = ""
    /\ req_text = "" /\ req_today = PipelineToday /\ req_device = [regions |-> <<>>]
    /\ req_ip = None /\ req_geo = [kind |-> "unconfigured"]
    /\ region_results = <<>> /\ fq_payloads = <<>>

\* the retrying search client alone
RetrySpecInit == RetryInit /\ QueryIdle /\ NormIdle /\ MergeIdle /\ AggIdle /\ rates = EmptyTable
SpecRetry == RetrySpecInit /\ [][RetryNext]_vars

\* normalize_price alone, under every rate table
NormInit == RetryInit /\ QueryIdle /\ NormIdle /\ MergeIdle /\ AggIdle /\ rates \in RateTables
NormNext == NormalizeCall
SpecNormalize == NormInit /\ [][NormNext]_vars

\* merge_and_dedupe_results alone
MergeInit == RetryInit /\ QueryIdle /\ NormIdle /\ MergeIdle /\ AggIdle /\ rates = EmptyTable
MergeNext == MergeCall \/ MergeTwice
SpecMerge == MergeInit /\ [][MergeNext]_vars

\* the multi-region flow, under the rate tables and display currencies of the model
AggInit ==
    /\ RetryInit /\ QueryIdle /\ NormIdle /\ MergeIdle
    /\ apc = "idle" /\ parsed = ValidQuery /\ regions = <<>> /\ regIdx = 1
    /\ settled = <<>> /\ aggregated_results = <<>> /\ merged = <<>>
    /\ ranked = <<>> /\ perror = ""
    /\ req_text = "" /\ req_today = PipelineToday /\ req_device = [regions |-> <<>>]
    /\ req_ip = None /\ req_geo = [kind |-> "unconfigured"]
    /\ region_results = <<>> /\ fq_payloads = <<>>
    /\ display_currency \in DisplayCurrencies /\ rates \in PipelineTables
AggNext == StartRequest \/ SearchRegion \/ Respond
SpecAggregate == AggInit /\ [][AggNext]_vars

\* the parser: the handler over every text, for the default region
ParseInit == RetryInit /\ QueryIdle /\ NormIdle /\ MergeIdle /\ AggIdle /\ rates = EmptyTable
ParseNext == ParseRequest \/ SearchRegion \/ Respond
SpecParse == ParseInit /\ [][ParseNext]_vars

\* the region resolver: the first step of the handler over every device
ResolveInit == RetryInit /\ QueryIdle /\ NormIdle /\ MergeIdle /\ AggIdle /\ rates = EmptyTable
ResolveNext == ResolveRequest
SpecResolve == ResolveInit /\ [][ResolveNext]_vars

\* the structured search endpoint, from the posted body to the response
SearchInit == RetrySpecInit
SearchNext == OrchestrateSearch \/ Attempt \/ Exhausted \/ SearchRespond
SpecSearch == SearchInit /\ [][SearchNext]_vars


(***************************************************************************)
(* Properties of the retrying search client.                               *)
(***************************************************************************)
Last(sq) == sq[Len(sq)]

\* an HTTP status that is neither 200 nor one of 429/502/503/504
IsNonRetryableStatus(o) ==
    o.type = "http" /\ o.status # 200 /\ o.status \notin {429, 502, 503, 504}

\* a failure that is neither an HTTP status, a timeout nor a connection failure
IsUnexpectedOutcome(o) ==
    \/ o.type = "redirects"
    \/ o.type = "http" /\ o.status = 200 /\ o.body = "<html>"

\* a 200 whose body parses
IsSuccessOutcome(o) == o.type = "http" /\ o.status = 200 /\ o.body \in {"[]", "[1]"}

\* the retry loop was entered (the tool's validation did not reject the query)
LoopEntered ==
    /\ fn # "none"
    /\ ~(fn = "tool" /\ (~Truthy(Get(flight_query, "origin"))
                         \/ ~Truthy(Get(flight_query, "destination"))))

\* C1: when the attempt that ends a search call received an HTTP status that
\* is neither 200 nor 429/502/503/504, the error raised to the caller is of
\* the non-retryable kind and carries that status and the response body.
C1_NonRetryableStatusKind ==
    (rpc = "done" /\ outcomes # <<>> /\ IsNonRetryableStatus(Last(outcomes)))
    => /\ result.kind = "raise"
       /\ result.code \in {"REMOTE_API_ERROR", "MCP_ERROR"}
       /\ result.code \notin {"HTTP_UNEXPECTED_ERROR", "MCP_UNEXPECTED_ERROR"}
       /\ result.status_code = Last(outcomes).status
       /\ result.message =
            NonRetryableMessage(fn, Last(outcomes).status, Last(outcomes).body)

\* C2: when the call has ended, the number of backoff sleeps performed is
\* strictly less than the number of attempts made (no sleep follows the
\* final failed attempt).
C2_SleepsOnlyBetweenAttempts ==
    (rpc = "done" /\ outcomes # <<>>) => Len(sleeps) < Len(outcomes)

\* C3: a call whose first k < maxRetries attempts end with retryable outcomes
\* and whose attempt k+1 returns a 200 with a parseable body returns the
\* parsed body after exactly k+1 attempts, having slept base*2^(i-1) after
\* attempt i for i = 1..k, in that order.
C3_SuccessAfterRetries ==
    /\ Len(outcomes) <= max_retries
    /\ (rpc = "loop" /\ LoopEntered)
          => \A i \in 1..Len(outcomes) : IsRetryableOutcome(outcomes[i])
    /\ (rpc = "done" /\ outcomes # <<>> /\ IsSuccessOutcome(Last(outcomes)))
          => LET k == Len(outcomes) - 1
             IN  /\ \A i \in 1..k : IsRetryableOutcome(outcomes[i])
                 /\ result.kind = "return"
                 /\ result.value = (IF Last(outcomes).body = "[1]" THEN <<1>> ELSE <<>>)
                 /\ sleeps = [i \in 1..k |-> base_delay * 2 ^ (i - 1)]

\* 503, 503, 200: two sleeps, base then 2*base
C3_Witness ==
    /\ rpc = "done" /\ result.kind = "return" /\ Len(outcomes) = 3
    /\ outcomes[1].status = 503 /\ outcomes[2].status = 503
    /\ outcomes[3].status = 200
    /\ sleeps = <<base_delay, 2 * base_delay>> /\ base_delay = 2

\* C4: an attempt that receives a non-retryable HTTP status is the last one:
\* the call has failed, no sleep was performed for that attempt and no later
\* attempt exists, whatever retry budget remains.
C4_NonRetryableFailsAtOnce ==
    \A i \in 1..Len(outcomes) :
        IsNonRetryableStatus(outcomes[i])
        => /\ i = Len(outcomes)
           /\ rpc = "done" /\ result.kind = "raise"
           /\ Len(sleeps) = i - 1

\* a 400 on the first attempt with two attempts of budget left
C4_Witness ==
    /\ rpc = "done" /\ max_retries = 3 /\ Len(outcomes) = 1
    /\ outcomes[1].type = "http" /\ outcomes[1].status = 400
    /\ sleeps = <<>> /\ result.kind = "raise"

\* C5: the call ends with the service-unavailable kind (status 503) exactly
\* when all of its maxRetries attempts ended with a retryable outcome; that
\* kind differs from the non-retryable and the unexpected kinds, and the
\* call never makes more than maxRetries attempts.
C5_ExhaustedIsUnavailable ==
    /\ Len(outcomes) <= max_retries
    /\ (rpc = "done" /\ LoopEntered)
          => /\ (result.code \in {"REMOTE_API_UNAVAILABLE", "MCP_UNAVAILABLE"})
                   <=> (/\ Len(outcomes) = max_retries
                        /\ \A i \in 1..Len(outcomes) : IsRetryableOutcome(outcomes[i]))
             /\ (result.code \in {"REMOTE_API_UNAVAILABLE", "MCP_UNAVAILABLE"})
                   => /\ result.kind = "raise" /\ result.status_code = 503
                      /\ result.code \notin {"REMOTE_API_ERROR", "MCP_ERROR",
                                             "HTTP_UNEXPECTED_ERROR",
                                             "MCP_UNEXPECTED_ERROR"}
    /\ (rpc = "done" /\ ~LoopEntered)
          => result.code \notin {"REMOTE_API_UNAVAILABLE", "MCP_UNAVAILABLE"}

\* three retryable outcomes of three attempts
C5_Witness ==
    /\ rpc = "done" /\ max_retries = 3 /\ Len(outcomes) = 3
    /\ \A i \in 1..3 : IsRetryableOutcome(outcomes[i])
    /\ result.code = "MCP_UNAVAILABLE"

\* C6: an attempt that ends with an unexpected failure (neither an HTTP
\* status, a timeout nor a connection failure) is the last one: the call has
\* failed with the unexpected-failure kind, without a sleep for that attempt
\* and without a later attempt.
C6_UnexpectedFailsAtOnce ==
    \A i \in 1..Len(outcomes) :
        IsUnexpectedOutcome(outcomes[i])
        => /\ i = Len(outcomes)
           /\ rpc = "done" /\ result.kind = "raise"
           /\ result.code \in {"HTTP_UNEXPECTED_ERROR", "MCP_UNEXPECTED_ERROR"}
           /\ Len(sleeps) = i - 1

\* a 200 with an unparseable body on the first of three attempts
C6_Witness ==
    /\ rpc = "done" /\ max_retries = 3 /\ Len(outcomes) = 1
    /\ outcomes[1].status = 200 /\ outcomes[1].body = "<html>"
    /\ sleeps = <<>> /\ result.code = "MCP_UNEXPECTED_ERROR"

(***************************************************************************)
(* Properties of normalize_price.                                          *)
(***************************************************************************)
\* C7 as claimed: for every amount, currency c and rate table, the empty
\* table included, normalize(amount, c, c) returns amount unchanged.
C7_IdentityAnyTable ==
    (npc = "done" /\ PyEq(nargs[2], nargs[3])) => nret = nargs[1]

\* C7 amended: for every amount, currency c and non-empty rate table
\* (whether or not it contains c), normalize(amount, c, c) returns amount
\* unchanged; under the empty table it returns no value.
C7_IdentityNonEmptyTable ==
    (npc = "done" /\ PyEq(nargs[2], nargs[3]))
    => /\ TableTruthy(rates) => nret = nargs[1]
       /\ ~TableTruthy(rates) => nret = None

\* an identity conversion of a currency the non-empty table does not hold
C7_Witness ==
    /\ npc = "done" /\ nargs[2] = PStr("USD") /\ nargs[3] = PStr("USD")
    /\ nargs[1] = PInt(100) /\ nret = PInt(100)
    /\ rates["USD"] = Absent /\ rates["INR"] # Absent

\* the table holds a rate for the currency c
HasRate(tb, c) == c.t = "str" /\ c.s \in Currencies /\ tb[c.s] # Absent

\* v is the float (amount / rf) * rt
IsConverted(v, amount, rf, rt) ==
    /\ v.t = "float"
    /\ v.n * (amount.d * rf.n * rt.d) = v.d * (amount.n * rf.d * rt.n)

\* C20 as claimed: normalize returns no value whenever the table is empty or
\* fromCurrency or toCurrency is absent from it; when both are present and
\* differ it returns (amount / rate[fromCurrency]) * rate[toCurrency].
C20_AbsentOrConverted ==
    npc = "done" =>
        LET amount == nargs[1]
            from_currency == nargs[2]
            to_currency == nargs[3]
        IN  /\ (\/ ~TableTruthy(rates)
                \/ ~HasRate(rates, from_currency)
                \/ ~HasRate(rates, to_currency)) => nret = None
            /\ (/\ HasRate(rates, from_currency) /\ HasRate(rates, to_currency)
                /\ ~PyEq(from_currency, to_currency))
               => /\ IsNum(amount) /\ nret # None
                  /\ IsConverted(nret, amount, rates[from_currency.s],
                                 rates[to_currency.s])

\* C20 amended: normalize always returns.  It returns no value under the
\* empty table and, when the two currencies differ, whenever one of them is
\* absent from the table or the arithmetic fails (a zero rate of
\* fromCurrency, an amount that is no number); equal currencies under a
\* non-empty table give amount back, in the table or not; two different
\* currencies with rates and a working division give
\* (amount / rate[fromCurrency]) * rate[toCurrency].
C20_NoValueOrConverted ==
    npc = "done" =>
        LET amount == nargs[1]
            from_currency == nargs[2]
            to_currency == nargs[3]
        IN  IF ~TableTruthy(rates) THEN nret = None
            ELSE IF PyEq(from_currency, to_currency) THEN nret = amount
            ELSE IF ~HasRate(rates, from_currency) \/ ~HasRate(rates, to_currency)
                 THEN nret = None
            ELSE IF ~IsNum(amount) \/ rates[from_currency.s].n = 0 THEN nret = None
            ELSE IsConverted(nret, amount, rates[from_currency.s], rates[to_currency.s])

\* 100 USD at rate 1 into INR at rate 1/2
C20_Witness ==
    /\ npc = "done" /\ nargs = <<PInt(100), PStr("USD"), PStr("INR")>>
    /\ rates["USD"] = PFloat(1, 1) /\ rates["INR"] = PFloat(1, 2)
    /\ rates["EUR"] = Absent
    /\ nret = PFloat(50, 1)

(***************************************************************************)
(* Properties of merge_and_dedupe_results.                                 *)
(***************************************************************************)
\* a record without its region_sources
Strip(r) == [k \in DOMAIN r \ {"region_sources"} |-> r[k]]

\* C9: the output holds exactly one record per distinct merge key among the
\* well-formed inputs, in the order in which the keys are first met, and
\* every field of the k-th record other than region_sources is the field of
\* the first input that carries the k-th key.
C9_FirstSeenCanonical ==
    mpc = "done" =>
        LET wf == SelectSeq(minput, IsDict)
            firsts == {i \in 1..Len(wf) :
                          \A j \in 1..(i - 1) : MergeKey(wf[j]) # MergeKey(wf[i])}
        IN  /\ Len(moutput) = Cardinality(firsts)
            /\ \A k \in 1..Len(moutput) :
                  \E i \in firsts :
                      /\ Cardinality({j \in firsts : j < i}) = k - 1
                      /\ Strip(moutput[k]) = Strip(wf[i])

\* a duplicate with another price, met after a malformed entry, changes
\* nothing but region_sources
C9_Witness ==
    /\ mpc = "done" /\ Len(minput) = 3
    /\ minput[1] = Tag(Offer(PStr("F1"), "P", PInt(100)), "IN")
    /\ minput[2] = NonDict
    /\ minput[3] = Tag(Offer(PStr("F1"), "P", PInt(120)), "AE")
    /\ Len(moutput) = 1
    /\ moutput[1].price = PInt(100)
    /\ moutput[1].region_sources = <<PStr("IN"), PStr("AE")>>

\* C10: when the input is a list L of results that all carry a
\* providerFlightId, tagged with region a, followed by the same L tagged with
\* region b, the output has as many records as the merge of L tagged a
\* alone, and every record's region_sources is a then b, without a repeat.
C10_TwiceSameCount ==
    mpc = "done" =>
        \A a \in Labels, b \in Labels :
            LET n == Len(minput) \div 2
                half == SubSeq(minput, 1, n)
            IN  (/\ n > 0 /\ Len(minput) = 2 * n
                 /\ \A i \in 1..n :
                       /\ IsDict(minput[i])
                       /\ "providerFlightId" \in DOMAIN minput[i]
                       /\ Get(minput[i], "region_source") = PStr(a)
                       /\ minput[n + i] = Tag(minput[i], b))
                => /\ Len(moutput) = Len(merge_and_dedupe_results(half))
                   /\ \A k \in 1..Len(moutput) :
                         moutput[k].region_sources =
                             IF a = b THEN <<PStr(a)>> ELSE <<PStr(a), PStr(b)>>

\* two results of one key, returned by IN and by AE
C10_Witness ==
    /\ mpc = "done" /\ Len(minput) = 4
    /\ minput[1] = Tag(Offer(PStr("F1"), "P", PInt(100)), "IN")
    /\ minput[2] = Tag(Offer(PStr("F1"), "P", PInt(120)), "IN")
    /\ minput[3] = Tag(Offer(PStr("F1"), "P", PInt(100)), "AE")
    /\ minput[4] = Tag(Offer(PStr("F1"), "P", PInt(120)), "AE")
    /\ Len(moutput) = 1
    /\ moutput[1].region_sources = <<PStr("IN"), PStr("AE")>>

\* the fields of the fallback identity of a result without providerFlightId
AnonFields == {"provider", "origin", "destination", "departureTime", "price"}

\* a result without providerFlightId
NoFlightId(r) == Get(r, "providerFlightId") = None

\* two results agree on every field of the fallback identity (100 and 100.0
\* are the same price)
AgreeOnAnonFields(a, b) == \A f \in AnonFields : PyEq(Get(a, f), Get(b, f))

\* C11: any two results that have no providerFlightId, come from two
\* different regions and agree on provider, origin, destination,
\* departureTime and price end up in one single record of the output, whose
\* region_sources holds both region labels.
C11_AnonDuplicatesMerge ==
    mpc = "done" =>
        \A i, j \in 1..Len(minput) :
            (/\ i < j /\ IsDict(minput[i]) /\ IsDict(minput[j])
             /\ NoFlightId(minput[i]) /\ NoFlightId(minput[j])
             /\ Truthy(Get(minput[i], "region_source"))
             /\ Truthy(Get(minput[j], "region_source"))
             /\ Get(minput[i], "region_source") # Get(minput[j], "region_source")
             /\ AgreeOnAnonFields(minput[i], minput[j]))
            => LET same == {k \in 1..Len(moutput) :
                               /\ NoFlightId(moutput[k])
                               /\ AgreeOnAnonFields(moutput[k], minput[i])}
               IN  /\ Cardinality(same) = 1
                   /\ \A k \in same :
                         /\ InList(Get(minput[i], "region_source"),
                                   moutput[k].region_sources)
                         /\ InList(Get(minput[j], "region_source"),
                                   moutput[k].region_sources)

RECURSIVE DistinctLabels(_, _)
\* the truthy region labels of the entries of lst, each once, in the order
\* in which they are first met
DistinctLabels(lst, sofar) ==
    IF lst = <<>> THEN sofar
    ELSE LET src == Get(Head(lst), "region_source")
         IN  DistinctLabels(Tail(lst),
                            IF Truthy(src) /\ \A i \in 1..Len(sofar) : sofar[i] # src
                            THEN Append(sofar, src) ELSE sofar)

\* the entries of lst filed under the key of r
SameKey(lst, r) == SelectSeq(lst, LAMBDA e : MergeKey(e) = MergeKey(r))

\* C18: wherever malformed entries stand in the input, the call returns a
\* list, and that list is the one determined by the well-formed entries
\* alone: one record per key in first-seen order, carrying the fields of the
\* first entry of that key and the labels of all entries of that key.
C18_MalformedSkipped ==
    mpc = "done" =>
        LET wf == SelectSeq(minput, IsDict)
            firsts == {i \in 1..Len(wf) :
                          \A j \in 1..(i - 1) : MergeKey(wf[j]) # MergeKey(wf[i])}
        IN  /\ Len(moutput) = Cardinality(firsts)
            /\ \A k \in 1..Len(moutput) :
                  \E i \in firsts :
                      /\ Cardinality({j \in firsts : j < i}) = k - 1
                      /\ moutput[k] =
                            [region_sources |-> DistinctLabels(SameKey(wf, wf[i]), <<>>)]
                            @@ wf[i]

\* malformed entries before and between two results of one key
C18_Witness ==
    /\ mpc = "done" /\ Len(minput) = 3
    /\ minput[1] = NonDict
    /\ minput[2] = Tag(Offer(PStr("F2"), "P", PInt(100)), "IN")
    /\ minput[3] = NonDict
    /\ Len(moutput) = 1
    /\ moutput[1].region_sources = <<PStr("IN")>>

(***************************************************************************)
(* Properties of parse_user_query and of the queries built from it.        *)
(***************************************************************************)
\* the request carried a text, which was parsed
Parsed == apc # "idle" /\ req_text # ""

C15_LastIntentRuleWins ==
    Parsed =>
        LET s == Lower(req_text)
            alone == <<RulePrice(EmptyDict, s), RuleAirline(EmptyDict, s),
                       RuleStops(EmptyDict, s), RuleCabin(EmptyDict, s),
                       RuleCompare(EmptyDict, s), RuleCheap(EmptyDict, s)>>
            fired == {k \in 1..6 : "intent" \in DOMAIN alone[k]}
        IN  /\ "intent" \in DOMAIN parsed
            /\ parsed.intent = IF fired = {} THEN PStr("cheapest")
                               ELSE alone[Greatest(fired)].intent

\* a price range and an airline, then the cheap fallback
C15_Witness ==
    /\ Parsed /\ req_text = "between 100 and 500 emirates cheapest "
    /\ parsed.intent = PStr("cheapest")
    /\ parsed.minPrice = PFloat(100, 1) /\ parsed.airline = PStr("Emirates")

\* the departDate of the highest-priority date rule that matches the text:
\* today, tomorrow, next weekend, a weekday name, a calendar date; None when
\* no rule matches
PriorityDate(s, ref) ==
    LET w == FirstWeekday(s)
        m == CalendarSearch(s)
        cal == Strptime(StrToInt(m.g1), m.g2, ref.y)
    IN  IF Contains(s, "today") THEN PStr(IsoFormat(ref))
        ELSE IF Contains(s, "tomorrow") THEN PStr(IsoFormat(AddDays(ref, 1)))
        ELSE IF Contains(s, "next weekend")
        THEN PStr(IsoFormat(AddDays(ref, (5 - Weekday(ref)) % 7)))
        ELSE IF w # 0
        THEN PStr(IsoFormat(AddDays(ref, ((w - 1) - Weekday(ref)) % 7)))
        ELSE IF m.ok /\ cal # NoDate THEN PStr(IsoFormat(cal))
        ELSE None

\* C16: the departDate of the parsed query is the one of the
\* highest-priority date rule that matches the text (today, tomorrow, next
\* weekend, weekday name, calendar date); a lower-priority rule never
\* replaces it.
C16_HighestPriorityDateRule ==
    Parsed => Get(parsed, "departDate") = PriorityDate(Lower(req_text), req_today)

\* C17: a parsed query that has both minPrice and maxPrice has
\* minPrice <= maxPrice.
C17_MinNotAboveMax ==
    (Parsed /\ "minPrice" \in DOMAIN parsed /\ "maxPrice" \in DOMAIN parsed)
    => ~NumLess(parsed.maxPrice, parsed.minPrice)

(***************************************************************************)
(* Properties of the ranking step of the multi-region flow.                *)
(***************************************************************************)
HasNormalized(x) == "_price_normalized" \in DOMAIN x
HasPrice(x) == "price" \in DOMAIN x

\* the request got as far as a sorted list
Sorted == apc \in {"ranked", "done"}

RankPrice(x) ==
    IF HasNormalized(x) THEN x["_price_normalized"]
    ELSE IF HasPrice(x) THEN x["price"]
    ELSE [t |-> "float", s |-> "", n |-> 1, d |-> 0]

MergeStarted ==
    \/ apc \in {"ranked", "done"}
    \/ apc = "error" /\ perror \notin {"EMPTY_QUERY", "INVALID_QUERY"}

RECURSIVE SucceededResults(_)
\* the tagged results of the first n regions, those of a region whose call
\* failed left out
SucceededResults(n) ==
    IF n = 0 THEN <<>>
    ELSE SucceededResults(n - 1)
            \o (IF settled[n] = "ok"
                THEN TagAllWith(region_results[n], RegionLabel(regions[n]))
                ELSE <<>>)

\* the search call of some region failed
SomeRegionFailed == \E i \in 1..Len(settled) : settled[i] = "failed"

DetectedFromIp ==
    /\ Parsed
    /\ RegionsInput(req_device) = <<>>
    /\ ~Truthy(Get(req_device, "country")) /\ ~Truthy(Get(req_device, "currency"))

\* C21: detect_region_from_ip always gives one region, and gives the default
\* region IN / INR / IN when the IP address is missing, the provider is not
\* configured, the request fails, the status is not 200 or the body is no
\* JSON object.
C21_IpDetectionDefaults ==
    DetectedFromIp
    => /\ Len(regions) = 1
       /\ DOMAIN regions[1] = {"country", "currency", "region"}
       /\ (~Truthy(req_ip) \/ req_geo.kind # "object")
          => regions = <<[country |-> PStr("IN"), currency |-> PStr("INR"),
                          region |-> PStr("IN")]>>

\* an IP address is given and the provider answers with a status other than 200
C21_Witness ==
    /\ DetectedFromIp /\ Truthy(req_ip) /\ req_geo.kind = "status"
    /\ regions[1].country = PStr("IN")

(***************************************************************************)
(* Properties of the validation in front of the search call.               *)
(***************************************************************************)
\* the tool was invoked with a query whose origin or destination is
\* missing, None or empty
ToolQueryInvalid ==
    /\ fn = "tool"
    /\ ~Truthy(Get(flight_query, "origin")) \/ ~Truthy(Get(flight_query, "destination"))

\* C22: a search through the tool with a missing or empty origin or
\* destination ends with the invalid-query error, status 400, and no HTTP
\* attempt and no sleep has taken place.
C22_InvalidQueryBeforeAnyAttempt ==
    ToolQueryInvalid
    => /\ rpc = "done"
       /\ result.kind = "raise"
       /\ result.code = "INVALID_FLIGHT_QUERY"
       /\ result.status_code = 400
       /\ outcomes = <<>> /\ sleeps = <<>> /\ attempt = 1

\* the destination is there, the origin is the empty string
C22_Witness ==
    /\ ToolQueryInvalid /\ rpc = "done" /\ result.status_code = 400
    /\ Get(flight_query, "origin") = PStr("") /\ Truthy(Get(flight_query, "destination"))

\* The handler's own check (app.py:242-243): the request that ends with
\* INVALID_QUERY has made no search call, and every payload handed to the
\* search call has an origin and a destination.
InvalidQueryBeforeSearch ==
    /\ perror = "INVALID_QUERY" => fq_payloads = <<>> /\ settled = <<>>
    /\ \A i \in 1..Len(fq_payloads) :
           Truthy(Get(fq_payloads[i], "origin")) /\ Truthy(Get(fq_payloads[i], "destination"))

(***************************************************************************)
(* Properties of the normalisation step of the multi-region flow.          *)
(***************************************************************************)
\* a ranked record without the two fields the normalisation adds
WithoutNormalized(x) ==
    [k \in DOMAIN x \ {"_price_normalized", "_display_currency"} |-> x[k]]

\* how many entries of the list lst are the record r
CountOf(lst, r) == Cardinality({j \in 1..Len(lst) : lst[j] = r})

SuppliedIntent == GetOr(request_body, "intent", Absent)

IsAllowed(v) == v.t = "str" /\ v.s \in allowed

\* C24: every FlightQuery that has been built has an intent among the six
\* allowed ones; a supplied intent among them is kept as it is, and any
\* other supplied value (None, airline_filter, any other string, a number)
\* and an intent left out give cheapest.  The dict handed to the search
\* tool carries that intent.
C24_BuiltIntentAllowed ==
    query.state = "built" =>
        /\ IsAllowed(query.dict.intent)
        /\ IsAllowed(SuppliedIntent) => query.dict.intent = SuppliedIntent
        /\ ~IsAllowed(SuppliedIntent) => query.dict.intent = PStr("cheapest")
        /\ flight_query = query.dict

\* a query built from a body whose intent is airline_filter
C24_Witness ==
    /\ query.state = "built"
    /\ SuppliedIntent = PStr("airline_filter")
    /\ query.dict.intent = PStr("cheapest")
    /\ search_response # NoResult

(***************************************************************************)
(* Properties of the single rules of parse_user_query.                     *)
(***************************************************************************)
\* C25: a text that contains "from delhi to dubai" is parsed with origin
\* DELHI and destination DUBAI, whatever words follow the phrase; no
\* following word becomes part of the destination.
C25_RouteWithoutFollowingWords ==
    (Parsed /\ Contains(Lower(req_text), "from delhi to dubai"))
    => /\ Get(parsed, "origin") = PStr("DELHI")
       /\ Get(parsed, "destination") = PStr("DUBAI")

\* the route phrase followed by a word of another rule
C25_FollowingWordInDestination ==
    /\ Parsed /\ req_text = "from delhi to dubai direct"
    /\ Get(parsed, "origin") = PStr("DELHI")
    /\ Get(parsed, "destination") = PStr("DUBAI DIRECT")

(***************************************************************************)
(* Properties of the identity of merged results.                           *)
(***************************************************************************)
\* a value as == compares it: 100 and 100.0 are the same number
ByValue(v) == IF IsNum(v) THEN [v EXCEPT !.t = "num"] ELSE v

\* the identity of a result: (provider, providerFlightId) when the result
\* has the key providerFlightId, whatever its value, and (provider, origin,
\* destination, departureTime, price) when it has not
IdentityKey(r) ==
    IF "providerFlightId" \in DOMAIN r
    THEN [provider |-> ByValue(Get(r, "provider")),
          providerFlightId |-> ByValue(r.providerFlightId),
          origin |-> None, destination |-> None, departureTime |-> None,
          price |-> None]
    ELSE [provider |-> ByValue(Get(r, "provider")),
          providerFlightId |-> Absent,
          origin |-> ByValue(Get(r, "origin")),
          destination |-> ByValue(Get(r, "destination")),
          departureTime |-> ByValue(Get(r, "departureTime")),
          price |-> ByValue(Get(r, "price"))]

\* C26: the merged list holds one record for each identity among the
\* well-formed results of the input: every input result has its identity in
\* the merged list, no two merged records have the same identity, and so
\* the number of merged records is the number of distinct identities.
C26_OneRecordPerIdentity ==
    mpc = "done" =>
        /\ \A i \in 1..Len(minput) :
              IsDict(minput[i]) =>
                \E j \in 1..Len(moutput) :
                    IdentityKey(moutput[j]) = IdentityKey(minput[i])
        /\ \A j, k \in 1..Len(moutput) :
              j # k => IdentityKey(moutput[j]) # IdentityKey(moutput[k])
        /\ Len(moutput) =
              Cardinality({IdentityKey(minput[i]) :
                              i \in {n \in 1..Len(minput) : IsDict(minput[n])}})

\* a result with an empty providerFlightId and one without the key, equal in
\* the five other fields, end up as one record
C26_EmptyIdMergedWithAnonymous ==
    /\ mpc = "done"
    /\ minput = <<Offer(PStr(""), "Q", PInt(100)), AnonOffer("Q", PInt(100))>>
    /\ Len(moutput) = 1

\* two results without the key, with prices 100 and 100.0, stay two records
C26_EqualPricesKeptApart ==
    /\ mpc = "done"
    /\ minput = <<AnonOffer("Q", PInt(100)), AnonOffer("Q", PFloat(100, 1))>>
    /\ Len(moutput) = 2

(***************************************************************************)
(* Properties of the time filters and of the price rule.                   *)
(***************************************************************************)
\* the 24-hour times HH:00
HourTimes == {PStr(ZeroPad(h, 2) \o ":00") : h \in 0..23}

\* C27: a departAfter and a departBefore of the parsed query are 24-hour
\* times HH:00 with HH from 00 to 23, whatever hour number the text gives.
C27_TimeFiltersAreHours ==
    Parsed =>
        /\ "departAfter" \in DOMAIN parsed => parsed.departAfter \in HourTimes
        /\ "departBefore" \in DOMAIN parsed => parsed.departBefore \in HourTimes

\* an hour number above 23 is stored as it is written
C27_HourOutOfRange ==
    /\ Parsed /\ req_text = "after 25"
    /\ Get(parsed, "departAfter") = PStr("25:00")

\* pm adds 12 to an hour below 12; without pm the hour is kept
C27_PmAddsTwelve ==
    /\ Parsed /\ req_text = "after 5pm before 11 am"
    /\ Get(parsed, "departAfter") = PStr("17:00")
    /\ Get(parsed, "departBefore") = PStr("11:00")

\* C28: a text that matches neither "between X and Y" nor "under N" /
\* "below N" and that contains "above N" or "over N" is parsed with
\* minPrice = N, and the price rule gives intent price_range, also when the
\* word "under" or "below" stands in the text without a number.
C28_AboveAfterUnmatchedUnder ==
    Parsed =>
        LET s == Lower(req_text)
            m == WordNumberSearch(s, {"above", "over"})
        IN  (/\ ~BetweenSearch(s).ok
             /\ ~WordNumberSearch(s, {"under", "below"}).ok
             /\ m.ok)
            => /\ Get(parsed, "minPrice") = FloatOf(m.g1)
               /\ Get(RulePrice(EmptyDict, s), "intent") = PStr("price_range")

\* "under" without a number keeps the rule from looking for "over N"
C28_UnderWordBlocksAbove ==
    /\ Parsed /\ req_text = "under budget over 200 "
    /\ "minPrice" \notin DOMAIN parsed
    /\ parsed.intent = PStr("cheapest")

\* without "under" or "below" in the text, "above N" sets minPrice
C28_AboveAlone ==
    /\ Parsed /\ req_text = "flights above 500"
    /\ Get(parsed, "minPrice") = PFloat(500, 1)
    /\ parsed.intent = PStr("price_range")

(***************************************************************************)
(* Properties of the dates of a round trip.                                *)
(***************************************************************************)
\* the number yyyymmdd of an ISO date string yyyy-mm-dd
IsoNumber(iso) ==
    StrToInt(SubSeq(iso, 1, 4)) * 10000 + StrToInt(SubSeq(iso, 6, 7)) * 100
    + StrToInt(SubSeq(iso, 9, 10))

\* the parsed query has a departDate and a returnDate
HasBothDates ==
    /\ Parsed /\ "departDate" \in DOMAIN parsed /\ "returnDate" \in DOMAIN parsed

\* C29: a parsed query with both a departDate and a returnDate has its
\* returnDate on or after its departDate, for every reference date and
\* every date rule combined with the round-trip rule.
C29_ReturnNotBeforeDeparture ==
    HasBothDates => IsoNumber(parsed.returnDate.s) >= IsoNumber(parsed.departDate.s)

\* a weekday more than three days ahead with the default return date
C29_ReturnBeforeDeparture ==
    /\ HasBothDates /\ req_text = "friday return" /\ req_today = Date(2026, 11, 1)
    /\ parsed.departDate = PStr("2026-11-06")
    /\ parsed.returnDate = PStr("2026-11-04")

\* next weekend sets its own return date, the day after the departure
C29_WeekendReturn ==
    /\ HasBothDates /\ req_text = "next weekend return" /\ req_today = Date(2026, 11, 1)
    /\ parsed.departDate = PStr("2026-11-07")
    /\ parsed.returnDate = PStr("2026-11-08")

====
